---------------------------- MODULE Spec2Model ----------------------------
(***************************************************************************)
(* A model of the Data-Uploader bulk-load engine (src/upload_refresh.py).  *)
(*                                                                         *)
(* Part A (SpecLoad): upload_from_folders driving upload_df_to_table over  *)
(* one pyodbc connection opened with autocommit=False.  The destination    *)
(* table is modelled by its committed content (table) and by the content   *)
(* the open transaction sees (work).                                       *)
(*                                                                         *)
(* Part B (SpecPrep): the column reconciliation of                         *)
(* prepare_dataframe_for_table, on column names.                           *)
(*                                                                         *)
(* Part C (SpecSchema, SpecCoerce): parse_table_name and the length rule   *)
(* of get_table_columns; the coercion of the cells of one column by        *)
(* prepare_dataframe_for_table followed by upload_df_to_table.             *)
(*                                                                         *)
(* Parts D, E, F (SpecChunks, SpecGui, SpecSql), on the variables of Part  *)
(* C: upload_excel_in_chunks; the upload thread of the GUI                 *)
(* (src/data_uploader_gui.py) beside the table selection; run_sql_scripts. *)
(***************************************************************************)
EXTENDS Integers, Sequences, FiniteSets, TLC

VARIABLES
    \* ---- Part A: the connection and the upload in progress
    table,          \* committed rows of the destination table, in insert order
    work,           \* rows as the connection's open transaction sees them
    connOpen,       \* the connection has not been closed
    upload_mode,    \* entry.get('upload_mode', 'append')
    hasCols,        \* list(df.columns) is not empty
    fileNo,         \* number of the prepared file being uploaded (0: none yet)
    data,           \* the row tuples of the current frame
    pc,             \* position of the driver / of upload_df_to_table
    i,              \* offset of the current batch (for i in range(0, total_rows, batch_size))
    rows_uploaded,  \* rows committed by the current call
    \* ---- Part A: history (not program state)
    startTable,     \* committed table when the current call began
    clearFailed,    \* the DELETE of delete mode raised and was swallowed
    clearing,       \* the clearing statements the current call executed
    issued,         \* batch numbers for which executemany was called, in order
    failedBatch,    \* number of the batch whose executemany raised (0: none)
    done,           \* one record per call that returned normally
    \* ---- Part B: prepare_dataframe_for_table
    ppc,            \* "off" | "input" | "prepared"
    srcCols,        \* list(df.columns): the source column names
    destCols,       \* expected_cols: the destination column names
    prep,           \* the result of the reconciliation
    \* ---- Part C: one call of a function of the schema or coercion code
    cpc,            \* "off" | "input" | "done"
    cin,            \* the arguments of the call
    cout            \* what the call produced

varsA == <<table, work, connOpen, upload_mode, hasCols, fileNo, data, pc, i,
           rows_uploaded, startTable, clearFailed, clearing, issued,
           failedBatch, done>>
varsB == <<ppc, srcCols, destCols, prep>>
varsC == <<cpc, cin, cout>>
vars == <<table, work, connOpen, upload_mode, hasCols, fileNo, data, pc, i,
          rows_uploaded, startTable, clearFailed, clearing, issued,
          failedBatch, done,
          ppc, srcCols, destCols, prep, cpc, cin, cout>>

(***************************************************************************)
(* Bounds of the model.                                                    *)
(***************************************************************************)
\* rows the table may hold before the run
MaxOld == 2
\* rows of one prepared frame
MaxRows == 5
\* prepared files of one folder entry
MaxFiles == 2
\* batch_size is 5000 in the source (upload_refresh.py:614); it is scaled down
\* here so that a frame of MaxRows rows is sent in several batches.
batch_size == 2

Min(a, b) == IF a < b THEN a ELSE b

\* The values of upload_mode the model draws from: the three the code names,
\* and two it does not ('Delete', 'replace').
Modes == {"append", "delete", "truncate", "Delete", "replace"}

(***************************************************************************)
(* Part A: helpers                                                         *)
(***************************************************************************)
\* The rows already in the table before the run: <<0, j>>.
OldRows(n) == [j \in 1..n |-> <<0, j>>]

\* The row tuples built from frame number f of n rows (the `data` list):
\* row j of file f is <<f, j>>.
FrameRows(f, n) == [j \in 1..n |-> <<f, j>>]

\* total_rows = len(data)
total_rows == Len(data)

\* The batch sent by the executemany at offset off: data[i:i + batch_size] when
\* total_rows > batch_size, the whole data otherwise.  (BatchOneRowMore: a
\* slice that runs one row into the next batch.)
BatchOneRowMore(d, off) ==
    IF Len(d) > batch_size
    THEN SubSeq(d, off + 1, Min(off + batch_size + 1, Len(d)))
    ELSE d
Batch(d, off) ==
    IF Len(d) > batch_size
    THEN SubSeq(d, off + 1, Min(off + batch_size, Len(d)))
    ELSE d

\* batch_num = (i // batch_size) + 1
BatchNum(off) == (off \div batch_size) + 1

\* Whether the for loop has another batch after the one at offset off.
MoreBatches(d, off) == Len(d) > batch_size /\ off + batch_size < Len(d)

\* Effect of a successful DELETE FROM {table} on the rows the transaction sees.
ExecuteDeleteKeeps(w) == w
ExecuteDelete(w) == << >>

\* Where upload_df_to_table goes when the DELETE of delete mode raises: the
\* except clause prints a warning and execution continues with the inserts.
OnDeleteErrorRaises == "raised"
OnDeleteError == "insert"

\* Where upload_df_to_table goes when executemany (or commit) raises: the
\* except clause prints diagnostics and re-raises.
OnInsertErrorContinues == "commit"
OnInsertError == "raised"

\* conn.close() with autocommit=False: what is committed afterwards.  The open
\* transaction is rolled back.
CloseConnectionCommits(t, w) == w
CloseConnection(t, w) == t

(***************************************************************************)
(* The parts that are not running are idle.                                *)
(***************************************************************************)
IdleB == ppc = "off" /\ srcCols = << >> /\ destCols = << >> /\ prep = << >>

IdleC == cpc = "off" /\ cin = << >> /\ cout = << >>

IdleA ==
    /\ table = << >> /\ work = << >> /\ connOpen = FALSE
    /\ upload_mode = "append" /\ hasCols = FALSE /\ fileNo = 0 /\ data = << >>
    /\ pc = "off" /\ i = 0 /\ rows_uploaded = 0 /\ startTable = << >>
    /\ clearFailed = FALSE /\ issued = << >> /\ failedBatch = 0 /\ done = << >>
    /\ clearing = "none"

(***************************************************************************)
(* Part A: upload_from_folders and upload_df_to_table                      *)
(***************************************************************************)
\* conn = connect_from_cfg(cfg['db']); the entry's upload mode is read from the
\* configuration; the table holds some rows already.
InitLoad ==
    /\ \E n \in 0..MaxOld : table = OldRows(n) /\ work = OldRows(n)
    /\ connOpen = TRUE
    /\ upload_mode \in Modes
    /\ hasCols \in BOOLEAN
    /\ fileNo = 0 /\ data = << >> /\ pc = "idle" /\ i = 0 /\ rows_uploaded = 0
    /\ startTable = << >> /\ clearFailed = FALSE /\ issued = << >>
    /\ failedBatch = 0 /\ done = << >>
    /\ clearing = "none"
    /\ IdleB
    /\ IdleC

\* for orig_path, df, table_cols in prepared_files: upload_df_to_table(...).
\* The call returns at once when the frame has no columns.
CallUpload ==
    /\ pc = "idle" /\ connOpen /\ fileNo < MaxFiles
    /\ \E n \in 0..MaxRows :
          data' = FrameRows(fileNo + 1, n)
    /\ fileNo' = fileNo + 1
    /\ i' = 0 /\ rows_uploaded' = 0
    /\ startTable' = table
    /\ clearFailed' = FALSE /\ issued' = << >> /\ failedBatch' = 0
    /\ clearing' = "none"
    /\ pc' = IF hasCols THEN "clear" ELSE "skipped"
    /\ UNCHANGED <<table, work, connOpen, upload_mode, hasCols, done>>
    /\ UNCHANGED varsB
    /\ UNCHANGED varsC

\* `if upload_mode == 'delete':` compares the mode as it was written in the
\* configuration; the first definition compares it whatever its case.
IsDeleteModeAnyCase(mode) == mode \in {"delete", "Delete"}
IsDeleteMode(mode) == mode = "delete"

\* Handle table clearing based on upload_mode.
ClearTable ==
    /\ pc = "clear"
    /\ \/ /\ IsDeleteMode(upload_mode)
          /\ \/ /\ work' = ExecuteDelete(work)
                /\ pc' = "insert"
                /\ clearing' = "delete"
                /\ UNCHANGED clearFailed
             \/ /\ clearFailed' = TRUE
                /\ pc' = OnDeleteError
                /\ clearing' = "delete failed"
                /\ UNCHANGED work
       \/ /\ upload_mode = "truncate"
          /\ \/ /\ work' = << >>             \* TRUNCATE TABLE succeeded
                /\ pc' = "insert"
                /\ clearing' = "truncate"
             \/ /\ work' = ExecuteDelete(work) \* TRUNCATE failed, DELETE succeeded
                /\ pc' = "insert"
                /\ clearing' = "fallback"
             \/ /\ pc' = "raised"            \* TRUNCATE failed, DELETE raised
                /\ clearing' = "fallback failed"
                /\ UNCHANGED work
          /\ UNCHANGED clearFailed
       \/ /\ ~IsDeleteMode(upload_mode) /\ upload_mode # "truncate"
          /\ pc' = "insert"
          /\ UNCHANGED <<work, clearFailed, clearing>>
    /\ UNCHANGED <<table, connOpen, upload_mode, hasCols, fileNo, data, i,
                   rows_uploaded, startTable, issued, failedBatch, done>>
    /\ UNCHANGED varsB
    /\ UNCHANGED varsC

\* cursor.executemany(sql, batch): either every row of the batch is inserted in
\* the open transaction, or the call raises, having inserted some of the
\* batch's leading rows (none, or any proper prefix) in the open transaction.
Insert ==
    /\ pc = "insert"
    /\ issued' = Append(issued, BatchNum(i))
    /\ LET batch == Batch(data, i) IN
       \/ /\ work' = work \o batch
          /\ pc' = "commit"
          /\ UNCHANGED failedBatch
       \/ /\ \E p \in 0..Len(batch) :
                /\ p < Len(batch) \/ Len(batch) = 0
                /\ work' = work \o SubSeq(batch, 1, p)
          /\ failedBatch' = BatchNum(i)
          /\ pc' = OnInsertError
    /\ UNCHANGED <<table, connOpen, upload_mode, hasCols, fileNo, data, i,
                   rows_uploaded, startTable, clearFailed, done>>
    /\ UNCHANGED clearing
    /\ UNCHANGED varsB
    /\ UNCHANGED varsC

\* conn.commit() after the batch; rows_uploaded += len(batch); the loop goes on
\* to the next batch or the call returns.
Commit ==
    /\ pc = "commit"
    /\ table' = work
    /\ rows_uploaded' = rows_uploaded + Len(Batch(data, i))
    /\ IF MoreBatches(data, i)
       THEN /\ i' = i + batch_size
            /\ pc' = "insert"
       ELSE /\ i' = i
            /\ pc' = "returned"
    /\ UNCHANGED <<work, connOpen, upload_mode, hasCols, fileNo, data,
                   startTable, clearFailed, issued, failedBatch, done>>
    /\ UNCHANGED clearing
    /\ UNCHANGED varsB
    /\ UNCHANGED varsC

\* The call returned normally: print(f"Uploaded {len(df)} rows ..."), next file.
Return ==
    /\ pc \in {"returned", "skipped"}
    /\ done' = Append(done, [file |-> fileNo, n |-> Len(data),
                             result |-> pc, clearFailed |-> clearFailed,
                             before |-> startTable, after |-> table])
    /\ pc' = "idle"
    /\ UNCHANGED <<table, work, connOpen, upload_mode, hasCols, fileNo, data, i,
                   rows_uploaded, startTable, clearFailed, issued, failedBatch>>
    /\ UNCHANGED clearing
    /\ UNCHANGED varsB
    /\ UNCHANGED varsC

\* The exception leaves upload_from_folders through finally: conn.close().
Propagate ==
    /\ pc = "raised"
    /\ table' = CloseConnection(table, work)
    /\ work' = CloseConnection(table, work)
    /\ connOpen' = FALSE
    /\ pc' = "failed"
    /\ UNCHANGED <<upload_mode, hasCols, fileNo, data, i, rows_uploaded,
                   startTable, clearFailed, issued, failedBatch, done>>
    /\ UNCHANGED clearing
    /\ UNCHANGED varsB
    /\ UNCHANGED varsC

\* No file is left: finally: conn.close().
Finish ==
    /\ pc = "idle" /\ connOpen
    /\ table' = CloseConnection(table, work)
    /\ work' = CloseConnection(table, work)
    /\ connOpen' = FALSE
    /\ pc' = "closed"
    /\ UNCHANGED <<upload_mode, hasCols, fileNo, data, i, rows_uploaded,
                   startTable, clearFailed, issued, failedBatch, done>>
    /\ UNCHANGED clearing
    /\ UNCHANGED varsB
    /\ UNCHANGED varsC

NextLoad ==
    \/ CallUpload
    \/ ClearTable
    \/ Insert
    \/ Commit
    \/ Return
    \/ Propagate
    \/ Finish

SpecLoad == InitLoad /\ [][NextLoad]_vars

Spec == SpecLoad

(***************************************************************************)
(* Part A: claims                                                          *)
(***************************************************************************)
\* The committed rows that come from the frame of the current call.
CommittedOfCall == SelectSeq(table, LAMBDA r : r[1] = fileNo)

\* C1: when the insert of batch k fails, the committed rows of the call are
\* exactly the rows of batches 1..k-1, in order (so no row of batch k or of a
\* later batch is committed, then or later), and no executemany was called for
\* a batch after k.
C1_FailedBatchKeepsEarlierBatches ==
    failedBatch # 0 =>
        /\ pc \in {"raised", "failed"}
        /\ CommittedOfCall = SubSeq(data, 1, (failedBatch - 1) * batch_size)
        /\ issued = [b \in 1..failedBatch |-> b]

\* C1 witness: batch 2 of at least 3 failed, the connection is closed, and
\* batch 1 is what the table holds of the frame.
C1_Witness ==
    /\ pc = "failed" /\ failedBatch = 2
    /\ Len(data) > 2 * batch_size
    /\ Len(CommittedOfCall) = batch_size

\* C2 (as claimed): in delete mode the deletion is committed before the insert
\* of the first batch is issued, i.e. when the first executemany is about to be
\* called after a successful DELETE the committed table holds no row.
C2_DeleteCommittedBeforeFirstInsert ==
    (upload_mode = "delete" /\ ~clearFailed /\ pc = "insert" /\ i = 0)
        => table = << >>

\* C2 (amended): in delete mode a successful DELETE is executed before the
\* first insert but is not committed on its own.  When the first executemany
\* is called the open transaction sees an empty table while the committed table
\* is still what it was; the deletion is committed by the commit that follows
\* the first batch, and is rolled back with the connection if that insert
\* fails.
C2_DeleteCommittedWithFirstBatch ==
    (upload_mode = "delete" /\ ~clearFailed /\ fileNo > 0) =>
        /\ (pc = "insert" /\ i = 0) => (work = << >> /\ table = startTable)
        /\ (pc = "commit" /\ i = 0) =>
               (work = Batch(data, 0) /\ table = startTable)
        /\ (pc \in {"insert", "commit", "returned"} /\ rows_uploaded > 0) =>
               table = SubSeq(data, 1, rows_uploaded)
        /\ (pc = "failed" /\ failedBatch = 1) => table = startTable

\* C2 witness: a table that held rows was cleared by a delete-mode upload whose
\* first batch has been committed.
C2_Witness ==
    /\ upload_mode = "delete" /\ ~clearFailed /\ startTable # << >>
    /\ pc = "insert" /\ i = batch_size
    /\ table = SubSeq(data, 1, batch_size)

\* C3 (as claimed): when the DELETE of delete mode fails, no insert is issued
\* and no row of the frame is committed.
C3_ClearFailureStopsUpload ==
    (upload_mode = "delete" /\ clearFailed) =>
        (issued = << >> /\ CommittedOfCall = << >>)

\* C3 (amended): when the DELETE of delete mode fails, upload_df_to_table only
\* warns and carries on as in append mode: the call does not fail before an
\* insert is issued, the rows the table held stay, and a call that
\* returns has committed every row of the frame after them.
C3_ClearFailureContinuesAsAppend ==
    (upload_mode = "delete" /\ clearFailed) =>
        /\ pc \in {"raised", "failed"} => failedBatch # 0
        /\ Len(work) >= Len(startTable)
        /\ SubSeq(work, 1, Len(startTable)) = startTable
        /\ SubSeq(table, 1, Len(startTable)) = startTable
        /\ pc = "returned" => table = startTable \o data

\* C3 witness: the DELETE failed and the call still returned with its rows
\* committed after the rows the table held.
C3_Witness ==
    /\ upload_mode = "delete" /\ clearFailed /\ pc = "returned"
    /\ startTable # << >> /\ data # << >>
    /\ table = startTable \o data

\* Two calls in succession that both returned having executed every statement
\* successfully, with frames of the same rows.
SameFrameTwice(k) ==
    /\ k + 1 <= Len(done)
    /\ done[k].result = "returned" /\ done[k + 1].result = "returned"
    /\ ~done[k].clearFailed /\ ~done[k + 1].clearFailed
    /\ done[k].n = done[k + 1].n

\* C4: the same frame uploaded twice in succession, both uploads succeeding:
\* in append mode the table has gained 2 x rows(F) rows, in delete mode it
\* holds exactly the rows of F, whatever it held before.
C4_TwiceAppendDoublesDeleteReplaces ==
    \A k \in 1..Len(done) :
        SameFrameTwice(k) =>
            /\ upload_mode = "append" =>
                   /\ Len(done[k + 1].after) = Len(done[k].before) + 2 * done[k].n
                   /\ done[k + 1].after =
                          done[k].before \o FrameRows(done[k].file, done[k].n)
                                         \o FrameRows(done[k + 1].file, done[k].n)
            /\ upload_mode = "delete" =>
                   /\ Len(done[k + 1].after) = done[k].n
                   /\ done[k + 1].after = FrameRows(done[k + 1].file, done[k].n)

\* C4 witness: a non-empty frame was uploaded twice in delete mode to a table
\* that held rows.
C4_Witness ==
    /\ upload_mode = "delete" /\ SameFrameTwice(1)
    /\ done[1].n > batch_size /\ done[1].before # << >>

\* C4 witness in append mode (the other half of the claim).
C4_WitnessAppend ==
    /\ upload_mode = "append" /\ SameFrameTwice(1)
    /\ done[1].n > 0 /\ Len(done[2].after) = Len(done[1].before) + 2 * done[1].n


(***************************************************************************)
(* Part B: column names                                                    *)
(*                                                                         *)
(* A column name is a sequence of characters; a character is a number:     *)
(* 0 is the space, 1..4 are the letters a..d, 11..14 the letters A..D.     *)
(***************************************************************************)
\* destination columns of one table
MaxD == 2
\* source columns of one frame
MaxS == 2

\* str.lower() on one character
LowerChar(c) == IF c > 10 THEN c - 10 ELSE c

\* str.lower()
LowerStr(s) == [k \in 1..Len(s) |-> LowerChar(s[k])]

\* str.strip(): the name without its leading and trailing spaces
RECURSIVE Strip(_)
Strip(s) ==
    IF s = << >> THEN s
    ELSE IF Head(s) = 0 THEN Strip(Tail(s))
    ELSE IF s[Len(s)] = 0 THEN Strip(SubSeq(s, 1, Len(s) - 1))
    ELSE s

\* The names the model draws columns from.
N_abc == <<1, 2, 3>>
N_Abc == <<11, 2, 3>>
N_sp_abc == <<0, 1, 2, 3>>
N_abcd == <<1, 2, 3, 4>>
N_abcda == <<1, 2, 3, 4, 1>>
N_ab == <<1, 2>>
N_dd == <<4, 4>>
\* 'abcdabcdabcdabcda' (17 characters) and the same followed by 'dddddd' (23
\* characters): SequenceMatcher gives the pair the ratio 2*17/40 = 0.85.
N_x17 == [k \in 1..17 |-> ((k - 1) % 4) + 1]
N_y23 == N_x17 \o <<4, 4, 4, 4, 4, 4>>

\* Names of destination columns: no surrounding space.
DestPool == {N_abc, N_Abc, N_abcd, N_dd, N_x17}
\* Names of source columns.
SrcPool == {N_abc, N_Abc, N_sp_abc, N_abcd, N_abcda, N_ab, N_dd, N_y23}

\* Lists of at most n names of pool, pairwise different.
NameLists(pool, n) ==
    UNION {{q \in [1..m -> pool] : \A x, y \in 1..m : x # y => q[x] # q[y]} : m \in 0..n}

\* Destination column lists: the names of one table are pairwise different
\* whatever the case.
DestLists ==
    {q \in NameLists(DestPool, MaxD) :
        \A x, y \in 1..Len(q) : x # y => LowerStr(q[x]) # LowerStr(q[y])}

\* Source column lists: the reader gives the columns of one file pairwise
\* different names (they may still agree once trimmed and lower-cased).
SrcLists == NameLists(SrcPool, MaxS)

(***************************************************************************)
(* difflib.SequenceMatcher(None, a, b).ratio() (no junk; both strings are  *)
(* far below the 200 elements where autojunk starts).                      *)
(***************************************************************************)
\* Length of the common run of a and b starting at a[x], b[y], inside
\* a[..ahi], b[..bhi].
RECURSIVE RunLen(_, _, _, _, _, _)
RunLen(a, b, x, y, ahi, bhi) ==
    IF x > ahi \/ y > bhi THEN 0
    ELSE IF a[x] # b[y] THEN 0
    ELSE 1 + RunLen(a, b, x + 1, y + 1, ahi, bhi)

\* find_longest_match: <<x, y, k>>, the longest block a[x..x+k-1] =
\* b[y..y+k-1] inside a[alo..ahi], b[blo..bhi]; of the longest blocks the one
\* starting earliest in a, and of those the one starting earliest in b.
FindLongestMatch(a, b, alo, ahi, blo, bhi) ==
    LET cand == (alo..ahi) \X (blo..bhi)
        len == [p \in cand |-> RunLen(a, b, p[1], p[2], ahi, bhi)]
        lens == {len[p] : p \in cand}
        k == CHOOSE n \in lens : \A m \in lens : m <= n
        longest == {p \in cand : len[p] = k}
        first == CHOOSE p \in longest :
                    \A r \in longest :
                        p[1] < r[1] \/ (p[1] = r[1] /\ p[2] <= r[2])
    IN  IF cand = {} THEN <<alo, blo, 0>> ELSE <<first[1], first[2], k>>

\* get_matching_blocks: total size of the matching blocks, found by splitting
\* around the longest match and recursing to its left and to its right.
RECURSIVE Matches(_, _, _, _, _, _)
Matches(a, b, alo, ahi, blo, bhi) ==
    IF alo > ahi \/ blo > bhi THEN 0
    ELSE LET m == FindLongestMatch(a, b, alo, ahi, blo, bhi) IN
         IF m[3] = 0 THEN 0
         ELSE m[3] + Matches(a, b, alo, m[1] - 1, blo, m[2] - 1)
                   + Matches(a, b, m[1] + m[3], ahi, m[2] + m[3], bhi)

\* ratio(): 2.0 * matches / (len(a) + len(b)), 1.0 for two empty strings; kept
\* as the fraction <<numerator, denominator>>.
SequenceMatcherRatio(a, b) ==
    IF Len(a) + Len(b) = 0 THEN <<1, 1>>
    ELSE <<2 * Matches(a, b, 1, Len(a), 1, Len(b)), Len(a) + Len(b)>>

\* Every string ratio() is called on: the lower-cased names, trimmed or not.
LowerNames ==
    {LowerStr(n) : n \in SrcPool \cup DestPool}
        \cup {LowerStr(Strip(n)) : n \in SrcPool \cup DestPool}

\* The ratios of all pairs, computed once.
RatioTable == [p \in LowerNames \X LowerNames |-> SequenceMatcherRatio(p[1], p[2])]

\* SequenceMatcher(None, a, b).ratio()
Ratio(a, b) == RatioTable[<<a, b>>]

\* threshold=0.85
threshold == <<17, 20>>

\* r > s on fractions
Greater(r, s) == r[1] * s[2] > s[1] * r[2]

\* ratio > best_ratio, written with >= by mistake
BetterOrEqual(ratio, best_ratio) == ratio[1] * best_ratio[2] >= best_ratio[1] * ratio[2]

\* if ratio > best_ratio
Better(ratio, best_ratio) == Greater(ratio, best_ratio)

\* best_match = None
None == << -1 >>

\* The loop of fuzzy_match over available[k..]; the result is
\* best_match.
RECURSIVE FuzzyLoop(_, _, _, _, _)
FuzzyLoop(expected, available, k, best_match, best_ratio) ==
    IF k > Len(available) THEN best_match
    ELSE LET ratio == Ratio(LowerStr(expected), LowerStr(available[k])) IN
         IF Better(ratio, best_ratio)
         THEN FuzzyLoop(expected, available, k + 1, available[k], ratio)
         ELSE FuzzyLoop(expected, available, k + 1, best_match, best_ratio)

\* fuzzy_match(expected, available, threshold=0.85)
fuzzy_match(expected, available) ==
    FuzzyLoop(expected, available, 1, None, threshold)

(***************************************************************************)
(* prepare_dataframe_for_table, on the columns of the frame.  A column of  *)
(* the working frame is [name, src]: its current label and the position in *)
(* the source frame of the column whose values it carries (0: a column     *)
(* created with None in every row).                                        *)
(***************************************************************************)
\* The key of col_map for a source column: c.lower().strip()
ColMapKey(c) == Strip(LowerStr(c))

\* col_map = {c.lower().strip(): c for c in orig_cols}, looked up: the
\* position of the source column stored under key (the last one with that
\* key), 0 when key is not in col_map.
ColMapIdx(orig_cols, key) ==
    LET hits == {k \in 1..Len(orig_cols) : ColMapKey(orig_cols[k]) = key}
    IN  IF hits = {} THEN 0 ELSE CHOOSE k \in hits : \A h \in hits : h <= k

\* prepared = df.copy(); prepared.columns = [c.strip() for c in prepared.columns]
StrippedFrame(orig_cols) ==
    [k \in 1..Len(orig_cols) |-> [name |-> Strip(orig_cols[k]), src |-> k]]

\* prepared.rename(columns={old: new}) that renames nothing
RenameNothing(cols, old, new) == cols

\* prepared.rename(columns={old: new}, inplace=True): every column labelled
\* old is relabelled; a label that is not there is ignored.
Rename(cols, old, new) ==
    [k \in 1..Len(cols) |->
        IF cols[k].name = old THEN [cols[k] EXCEPT !.name = new] ELSE cols[k]]

\* The labels of a frame, in order (prepared.columns).
Labels(cols) == [k \in 1..Len(cols) |-> cols[k].name]

\* The source positions of the columns labelled name.
SrcOf(cols, name) == {cols[k].src : k \in {x \in 1..Len(cols) : cols[x].name = name}}

\* prepared[exp] = None: a new last column, or every column already labelled
\* exp overwritten.
SetNone(cols, exp) ==
    IF \E k \in 1..Len(cols) : cols[k].name = exp
    THEN [k \in 1..Len(cols) |->
             IF cols[k].name = exp THEN [cols[k] EXCEPT !.src = 0] ELSE cols[k]]
    ELSE Append(cols, [name |-> exp, src |-> 0])

\* if fuzzy: (None and the empty string are false)
Truthy(f) == f # None /\ f # << >>

\* One turn of `for exp in expected_cols`.  st = [cols, missing, log]; the
\* log records, per destination column, how it was served and which source
\* columns it took: kind, the columns seen by fuzzy_match, its pick, and the
\* source positions claimed.
ExpectedStep(orig_cols, st, exp) ==
    LET key == LowerStr(exp)
        idx == ColMapIdx(orig_cols, key)
    IN  IF idx # 0
        THEN LET actual == orig_cols[idx] IN
             [cols |-> IF actual # exp THEN Rename(st.cols, actual, exp) ELSE st.cols,
              missing |-> st.missing,
              log |-> Append(st.log, [exp |-> exp, kind |-> "exact",
                                      available |-> << >>, pick |-> actual,
                                      claimed |-> {idx}])]
        ELSE LET fuzzy == fuzzy_match(exp, Labels(st.cols)) IN
             IF Truthy(fuzzy)
             THEN [cols |-> Rename(st.cols, fuzzy, exp),
                   missing |-> st.missing,
                   log |-> Append(st.log, [exp |-> exp, kind |-> "fuzzy",
                                           available |-> Labels(st.cols),
                                           pick |-> fuzzy,
                                           claimed |-> SrcOf(st.cols, fuzzy) \ {0}])]
             ELSE [cols |-> SetNone(st.cols, exp),
                   missing |-> Append(st.missing, exp),
                   log |-> Append(st.log, [exp |-> exp, kind |-> "missing",
                                           available |-> Labels(st.cols),
                                           pick |-> None,
                                           claimed |-> {}])]

\* for exp in expected_cols: ...
RECURSIVE ExpectedLoop(_, _, _, _)
ExpectedLoop(orig_cols, expected_cols, k, st) ==
    IF k > Len(expected_cols) THEN st
    ELSE ExpectedLoop(orig_cols, expected_cols, k + 1,
                      ExpectedStep(orig_cols, st, expected_cols[k]))

\* c.lower() not in [ec.lower() for ec in expected_cols]
IsExtra(c, expected_cols) ==
    \A k \in 1..Len(expected_cols) : LowerStr(c) # LowerStr(expected_cols[k])

\* extra_cols: the labels of the working frame that match no expected column.
ExtraCols(cols, expected_cols) ==
    SelectSeq(Labels(cols), LAMBDA c : IsExtra(c, expected_cols))

\* prepared.drop(columns=extra_cols, inplace=True)
DropExtra(cols, expected_cols) ==
    SelectSeq(cols, LAMBDA c : ~IsExtra(c.name, expected_cols))

\* prepared[expected_cols]: for each expected label in turn, every column
\* with that label.
RECURSIVE Reorder(_, _, _)
Reorder(cols, expected_cols, k) ==
    IF k > Len(expected_cols) THEN << >>
    ELSE SelectSeq(cols, LAMBDA c : c.name = expected_cols[k])
             \o Reorder(cols, expected_cols, k + 1)

\* prepared[expected_cols] raises KeyError when an expected label is absent.
HasAll(cols, expected_cols) ==
    \A k \in 1..Len(expected_cols) :
        \E x \in 1..Len(cols) : cols[x].name = expected_cols[k]

\* prepare_dataframe_for_table up to `prepared = prepared[expected_cols]`
\* (the coercion loop that follows relabels, adds and removes no column).
PrepareFrame(orig_cols, expected_cols) ==
    LET st == ExpectedLoop(orig_cols, expected_cols, 1,
                           [cols |-> StrippedFrame(orig_cols),
                            missing |-> << >>, log |-> << >>])
        kept == DropExtra(st.cols, expected_cols)
    IN  [status |-> IF HasAll(kept, expected_cols) THEN "ok" ELSE "KeyError",
         out |-> IF HasAll(kept, expected_cols)
                 THEN Reorder(kept, expected_cols, 1) ELSE << >>,
         missing |-> st.missing,
         extra |-> ExtraCols(st.cols, expected_cols),
         log |-> st.log]

\* A frame with some source columns is about to be prepared for a table with
\* some destination columns.
InitPrep ==
    /\ ppc = "input"
    /\ srcCols \in SrcLists
    /\ destCols \in DestLists
    /\ prep = << >>
    /\ IdleA
    /\ IdleC

\* df_prepared = prepare_dataframe_for_table(df, table_cols)
Prepare ==
    /\ ppc = "input"
    /\ prep' = PrepareFrame(srcCols, destCols)
    /\ ppc' = "prepared"
    /\ UNCHANGED <<srcCols, destCols>>
    /\ UNCHANGED varsA
    /\ UNCHANGED varsC

NextPrep == Prepare

SpecPrep == InitPrep /\ [][NextPrep]_vars


(***************************************************************************)
(* Part B: claims                                                          *)
(***************************************************************************)
\* The turns of the loop, one per destination column, in destination order.
Turns == 1..Len(prep.log)

\* The turns that called fuzzy_match.
FuzzyTurns == {x \in Turns : prep.log[x].kind \in {"fuzzy", "missing"}}

\* The similarity fuzzy_match computed for candidate k of a turn.
TurnRatio(e, k) == Ratio(LowerStr(e.exp), LowerStr(e.available[k]))

\* C5 (as claimed): every source column is claimed by at most one destination
\* column: a source column claimed in one turn is not claimed (reassigned or
\* relabelled) in a later turn.
C5_SourceClaimedAtMostOnce ==
    ppc = "prepared" =>
        \A x, y \in Turns :
            x < y => prep.log[x].claimed \cap prep.log[y].claimed = {}

\* C6 (as claimed): for every destination list and every source list the call
\* completes and the frame returned has exactly the destination columns, in
\* destination order.
C6_OutputHasExactlyDestColumns ==
    ppc = "prepared" =>
        (prep.status = "ok" /\ Labels(prep.out) = destCols)

\* C7 (as claimed): a source column that exactly matches (case-insensitive,
\* trimmed) a destination column is never taken by the fuzzy match of an
\* earlier destination column.
C7_ExactBeforeAnyFuzzy ==
    ppc = "prepared" =>
        \A x \in Turns :
            prep.log[x].kind = "fuzzy" =>
                \A s \in prep.log[x].claimed :
                    \A d \in Turns :
                        d > x => LowerStr(destCols[d]) # ColMapKey(srcCols[s])

\* C8 (as claimed): a candidate whose similarity is at least 0.85 makes the
\* fuzzy step claim a column; in particular a similarity of exactly 0.85
\* matches.
C8_AtLeastThresholdMatches ==
    ppc = "prepared" =>
        \A x \in FuzzyTurns :
            LET e == prep.log[x] IN
            (\E k \in 1..Len(e.available) : ~Greater(threshold, TurnRatio(e, k)))
                => e.pick # None

\* C8 (amended): fuzzy_match picks the column of the working frame with the
\* highest similarity among those scoring strictly more than 0.85, the first
\* of them on a tie; when no column scores more than 0.85 (one at exactly 0.85
\* included) it picks none.
C8_FuzzyPicksFirstBestAboveThreshold ==
    ppc = "prepared" =>
        \A x \in FuzzyTurns :
            LET e == prep.log[x]
                n == Len(e.available)
            IN  /\ e.pick = None =>
                       \A k \in 1..n : ~Greater(TurnRatio(e, k), threshold)
                /\ e.pick # None =>
                       \E k \in 1..n :
                           /\ e.available[k] = e.pick
                           /\ Greater(TurnRatio(e, k), threshold)
                           /\ \A j \in 1..n : ~Greater(TurnRatio(e, j), TurnRatio(e, k))
                           /\ \A j \in 1..(k - 1) :
                                  Greater(TurnRatio(e, k), TurnRatio(e, j))

\* C8 witness: a destination column met a source column at similarity exactly
\* 0.85 and claimed nothing.
C8_Witness ==
    /\ ppc = "prepared"
    /\ \E x \in FuzzyTurns :
          LET e == prep.log[x] IN
          /\ e.pick = None
          /\ \E k \in 1..Len(e.available) :
                TurnRatio(e, k)[1] * threshold[2] = threshold[1] * TurnRatio(e, k)[2]

\* A tie above the threshold went to the first candidate (reachable; the
\* second half of C8).
C8_TieReached ==
    /\ ppc = "prepared"
    /\ \E x \in FuzzyTurns :
          LET e == prep.log[x] IN
          /\ Len(e.available) = 2
          /\ e.pick = e.available[1] /\ e.available[1] # e.available[2]
          /\ TurnRatio(e, 1) = TurnRatio(e, 2)

\* C9 (as claimed), for the frames whose every destination column is served by
\* the exact match: a source column whose trimmed, lower-cased name equals that
\* of a destination column (the only such source column) has its values under
\* the destination name in the output frame.
C9_ExactMatchIgnoresCaseAndSpace ==
    (ppc = "prepared" /\ \A x \in Turns : prep.log[x].kind = "exact") =>
        \A d \in 1..Len(destCols) : \A s \in 1..Len(srcCols) :
            ( /\ ColMapKey(srcCols[s]) = LowerStr(Strip(destCols[d]))
              /\ \A t \in 1..Len(srcCols) :
                    ColMapKey(srcCols[t]) = ColMapKey(srcCols[s]) => t = s )
            => /\ prep.status = "ok"
               /\ \E k \in 1..Len(prep.out) :
                     prep.out[k] = [name |-> destCols[d], src |-> s]

\* The source names are a case-insensitive permutation of the destination
\* names.
CaseInsensitivePermutation ==
    /\ Len(srcCols) = Len(destCols)
    /\ \A d \in 1..Len(destCols) :
          \E s \in 1..Len(srcCols) : LowerStr(srcCols[s]) = LowerStr(destCols[d])

\* C10: when the source names are a case-insensitive permutation of the
\* destination names, no column is missing, none is extra, and the output is
\* the source columns reordered: destination column d carries the values of
\* the source column of the same name.
C10_PermutationIsPureReorder ==
    (ppc = "prepared" /\ CaseInsensitivePermutation) =>
        /\ prep.status = "ok"
        /\ prep.missing = << >> /\ prep.extra = << >>
        /\ Labels(prep.out) = destCols
        /\ \A d \in 1..Len(prep.out) :
              /\ prep.out[d].src # 0
              /\ LowerStr(srcCols[prep.out[d].src]) = LowerStr(destCols[d])

\* C10 witness: two columns in the other order, one of them in another case.
C10_Witness ==
    /\ ppc = "prepared" /\ CaseInsensitivePermutation
    /\ Len(destCols) = 2 /\ prep.status = "ok"
    /\ prep.out[1].src = 2 /\ prep.out[2].src = 1
    /\ \E d \in 1..2 : srcCols[prep.out[d].src] # destCols[d]

\* The source columns no turn of the loop claimed.
UnclaimedSources ==
    {s \in 1..Len(srcCols) : \A x \in Turns : s \notin prep.log[x].claimed}

\* C11 (as claimed): missing and extra columns are never fatal: the call
\* completes; every destination column that no source column claimed is
\* recorded as missing and is a column of None in the output; every source
\* column that no destination column claimed is recorded as extra and is not
\* in the output.
C11_MissingAndExtraNeverFatal ==
    ppc = "prepared" =>
        /\ prep.status = "ok"
        /\ \A x \in Turns :
              prep.log[x].claimed = {} =>
                 /\ \E m \in 1..Len(prep.missing) :
                       prep.missing[m] = prep.log[x].exp
                 /\ \E k \in 1..Len(prep.out) :
                       prep.out[k] = [name |-> prep.log[x].exp, src |-> 0]
        /\ \A s \in UnclaimedSources :
              /\ \E e \in 1..Len(prep.extra) : prep.extra[e] = Strip(srcCols[s])
              /\ \A k \in 1..Len(prep.out) : prep.out[k].src # s


(***************************************************************************)
(* Part A: what the caller of upload_df_to_table receives                  *)
(***************************************************************************)
\* How the current call of upload_df_to_table ended, as its caller sees it:
\* the function has no return statement with a value (it returns None at the
\* end or after 'No columns found ...'), and its except clause ends in a
\* bare raise.
Outcome ==
    CASE pc \in {"raised", "failed"} -> "exception"
      [] pc \in {"returned", "skipped"} -> "None"
      [] OTHER -> "running"

\* C12 (as claimed): when the insert of a batch fails, the caller receives a
\* result and not an exception.
C12_InsertFailureReturnsResult ==
    failedBatch # 0 => Outcome \notin {"exception", "running"}

\* C12 (amended): when the insert of batch k fails, the call ends in the
\* exception: it never returns, nothing is reported as uploaded for the file,
\* and once the caller has closed the connection exactly the rows of batches
\* 1..k-1 of the frame are committed.
C12_InsertFailureRaises ==
    failedBatch # 0 =>
        /\ Outcome = "exception"
        /\ \A d \in 1..Len(done) : done[d].file # fileNo
        /\ pc = "failed" =>
              /\ ~connOpen
              /\ CommittedOfCall =
                    SubSeq(data, 1, (failedBatch - 1) * batch_size)

\* C12 witness: the second batch of the second file failed after the first
\* file had been uploaded, and the exception has left the driver.
C12_Witness ==
    /\ failedBatch = 2 /\ pc = "failed" /\ fileNo = 2
    /\ Len(done) = 1 /\ Len(CommittedOfCall) = batch_size

\* get_table_columns returns the rows of the metadata query: when no table of
\* that schema and name exists it returns [] and raises nothing.  The frame
\* prepared for an empty column list has no column, so the frame handed to
\* upload_df_to_table has columns exactly when the table was found.
TableResolved == hasCols

\* C13 (as claimed): when the table reference cannot be resolved the run
\* fails before any data is touched: no call returns normally, nothing is
\* reported as uploaded, and the run does not end normally.
C13_UnresolvedTableFails ==
    ~TableResolved => (done = << >> /\ pc \notin {"skipped", "closed"})


(***************************************************************************)
(* Part C: text                                                            *)
(*                                                                         *)
(* A text (a Python str: a type name, a table reference, the content of a  *)
(* cell) is a sequence of one-character strings.                           *)
(***************************************************************************)
UpperLetters ==
    <<"A", "B", "C", "D", "E", "F", "G", "H", "I", "J", "K", "L", "M",
      "N", "O", "P", "Q", "R", "S", "T", "U", "V", "W", "X", "Y", "Z">>
LowerLetters ==
    <<"a", "b", "c", "d", "e", "f", "g", "h", "i", "j", "k", "l", "m",
      "n", "o", "p", "q", "r", "s", "t", "u", "v", "w", "x", "y", "z">>

\* str.lower()
TextLower(s) ==
    [k \in 1..Len(s) |->
        IF \E u \in 1..Len(UpperLetters) : UpperLetters[u] = s[k]
        THEN LowerLetters[CHOOSE u \in 1..Len(UpperLetters) : UpperLetters[u] = s[k]]
        ELSE s[k]]

\* str.strip(): the text without its leading and trailing white space
RECURSIVE TextStrip(_)
TextStrip(s) ==
    IF s = << >> THEN s
    ELSE IF Head(s) = " " THEN TextStrip(Tail(s))
    ELSE IF s[Len(s)] = " " THEN TextStrip(SubSeq(s, 1, Len(s) - 1))
    ELSE s

\* sub in s
TextIn(sub, s) ==
    \E p \in 1..(Len(s) - Len(sub) + 1) : SubSeq(s, p, p + Len(sub) - 1) = sub

(***************************************************************************)
(* Part C: get_table_columns, the length reported for one column           *)
(***************************************************************************)
\* t.name of sys.types for the types the model draws columns from
T_nvarchar == <<"n", "v", "a", "r", "c", "h", "a", "r">>
T_nchar == <<"n", "c", "h", "a", "r">>
T_varchar == <<"v", "a", "r", "c", "h", "a", "r">>
T_char == <<"c", "h", "a", "r">>
T_int == <<"i", "n", "t">>
T_bit == <<"b", "i", "t">>
T_date == <<"d", "a", "t", "e">>
T_datetime == <<"d", "a", "t", "e", "t", "i", "m", "e">>

\* The character types that store two bytes per character, and all of them.
DoubleByteTypes == {T_nvarchar, T_nchar}
CharTypes == {T_nvarchar, T_nchar, T_varchar, T_char}
\* uniqueidentifier, text, ntext and binary: types that are not character
\* types and that sql_type_to_coercion sends to 'str'.
OtherStrTypes ==
    {<<"u", "n", "i", "q", "u", "e", "i", "d", "e", "n", "t", "i", "f", "i", "e", "r">>,
     <<"t", "e", "x", "t">>, <<"n", "t", "e", "x", "t">>,
     <<"b", "i", "n", "a", "r", "y">>}
ColumnTypes == CharTypes \cup {T_int, T_bit, T_date, T_datetime} \cup OtherStrTypes

\* the largest c.max_length the model gives a column, in bytes
MaxBytes == 12

\* c.max_length of sys.columns: a number of bytes (even for a double-byte
\* type), or -1 for a column declared with (max).  A uniqueidentifier column
\* has 16 there (its storage size), a text or ntext column 16 (the size of
\* its in-row pointer), and a binary(n) column n.
DriverLengths(t) ==
    IF t \in OtherStrTypes
    THEN IF t = <<"b", "i", "n", "a", "r", "y">> THEN 1..MaxBytes ELSE {16}
    ELSE {-1} \cup {b \in 1..MaxBytes : t \in DoubleByteTypes => b % 2 = 0}

\* None as the third component of a column triple: the column has no
\* maximum length (every reader tests `max_length and max_length > 0`).
NoLength == 0

\* The third component get_table_columns appends for a row of the metadata
\* query: (col_name, data_type, char_max if char_max and char_max > 0 else None)
ReportedCharMax(data_type, CHAR_MAX) ==
    LET t == TextLower(data_type)
        char_max ==
            IF CHAR_MAX # 0 /\ CHAR_MAX > 0
            THEN IF TextIn(T_nvarchar, t) THEN CHAR_MAX \div 2
                 ELSE IF TextIn(T_varchar, t) \/ TextIn(T_char, t) THEN CHAR_MAX
                 ELSE CHAR_MAX
            ELSE CHAR_MAX
    IN  IF char_max # 0 /\ char_max > 0 THEN char_max ELSE NoLength

\* A row of the metadata query is about to be turned into a column triple.
ColumnInputs ==
    UNION {{[op |-> "columns", data_type |-> t, CHAR_MAX |-> b] :
              b \in DriverLengths(t)} : t \in ColumnTypes}

\* for row in cur.fetchall(): cols.append(...)
GetTableColumns ==
    /\ cpc = "input" /\ cin.op = "columns"
    /\ cout' = [data_type |-> cin.data_type,
                char_max |-> ReportedCharMax(cin.data_type, cin.CHAR_MAX)]
    /\ cpc' = "done"
    /\ UNCHANGED cin
    /\ UNCHANGED varsA
    /\ UNCHANGED varsB

\* C14 (as claimed): for a character-typed column with a declared length the
\* reported maximum is in characters: half the driver's byte length for
\* nvarchar and nchar, the byte length itself for varchar and char.
C14_CharLengthInCharacters ==
    (cpc = "done" /\ cin.op = "columns" /\ cin.data_type \in CharTypes
        /\ cin.CHAR_MAX > 0) =>
        cout.char_max = IF cin.data_type \in DoubleByteTypes
                        THEN cin.CHAR_MAX \div 2
                        ELSE cin.CHAR_MAX


(***************************************************************************)
(* Part C: parse_table_name (upload_refresh.py and src/database/queries.py)*)
(***************************************************************************)
\* the position of the first character c of s (0: none)
FirstIndex(s, c) ==
    IF \E p \in 1..Len(s) : s[p] = c
    THEN CHOOSE p \in 1..Len(s) : s[p] = c /\ \A q \in 1..(p - 1) : s[q] # c
    ELSE 0

\* re.split(r'\.', full_name)
RECURSIVE SplitDot(_)
SplitDot(s) ==
    LET p == FirstIndex(s, ".") IN
    IF p = 0 THEN <<s>>
    ELSE <<SubSeq(s, 1, p - 1)>> \o SplitDot(SubSeq(s, p + 1, Len(s)))

\* str.strip('[]'): the text without its leading and trailing brackets
RECURSIVE StripBrackets(_)
StripBrackets(s) ==
    IF s = << >> THEN s
    ELSE IF Head(s) \in {"[", "]"} THEN StripBrackets(Tail(s))
    ELSE IF s[Len(s)] \in {"[", "]"} THEN StripBrackets(SubSeq(s, 1, Len(s) - 1))
    ELSE s

\* re.findall(r'\[([^\]]+)\]', full_name): from left to right, the content of
\* every '[' ... ']' with at least one character other than ']' in between.
RECURSIVE FindAllBracketed(_)
FindAllBracketed(s) ==
    IF s = << >> THEN << >>
    ELSE IF Head(s) = "["
         THEN LET rest == Tail(s)
                  q == FirstIndex(rest, "]")
              IN  IF q > 1
                  THEN <<SubSeq(rest, 1, q - 1)>>
                           \o FindAllBracketed(SubSeq(rest, q + 1, Len(rest)))
                  ELSE FindAllBracketed(rest)
         ELSE FindAllBracketed(Tail(s))

\* None as the database of a parsed reference
NoDatabase == <<"None">>

\* a schema other than 'dbo' for a reference of one segment
DefaultSchemaEmpty == << >>
\* 'dbo'
DefaultSchema == <<"d", "b", "o">>

\* raise ValueError(...)
ValueError == [status |-> "ValueError", db |-> NoDatabase,
               schema |-> << >>, table |-> << >>]

\* The tail shared by the two implementations: if len(parts) == 3 ... elif
\* len(parts) == 2 ... elif len(parts) == 1 ... else raise ValueError.
PartsToName(parts) ==
    CASE Len(parts) = 3 ->
            [status |-> "ok", db |-> parts[1], schema |-> parts[2], table |-> parts[3]]
      [] Len(parts) = 2 ->
            [status |-> "ok", db |-> NoDatabase, schema |-> parts[1], table |-> parts[2]]
      [] Len(parts) = 1 ->
            [status |-> "ok", db |-> NoDatabase, schema |-> DefaultSchema, table |-> parts[1]]
      [] OTHER -> ValueError

\* upload_refresh.parse_table_name:
\* parts = [p.strip().strip('[]') for p in re.split(r'\.', full_name) if p.strip()]
parse_table_name(full_name) ==
    LET pieces == SelectSeq(SplitDot(full_name), LAMBDA p : TextStrip(p) # << >>)
    IN  PartsToName([k \in 1..Len(pieces) |-> StripBrackets(TextStrip(pieces[k]))])

\* src/database/queries.parse_table_name:
\* parts = re.findall(r'\[([^\]]+)\]', full_name)
queries_parse_table_name(full_name) ==
    PartsToName(FindAllBracketed(full_name))

\* the most segments of a table reference
MaxSeg == 4

\* The names of the segments, and the segments: a name written plain or
\* between brackets.
SegNames == {<<"d", "b", "o">>, <<"T", "1">>}
Segments == [name : SegNames, bracketed : BOOLEAN]
SegLists == UNION {[1..n -> Segments] : n \in 0..MaxSeg}

\* one segment as it is written
SegText(g) == IF g.bracketed THEN <<"[">> \o g.name \o <<"]">> ELSE g.name

\* The reference made of the segments: their texts joined by periods.
RECURSIVE Render(_)
Render(segs) ==
    IF segs = << >> THEN << >>
    ELSE IF Len(segs) = 1 THEN SegText(segs[1])
    ELSE SegText(segs[1]) \o <<".">> \o Render(Tail(segs))

\* A table reference is about to be parsed by one of the implementations.
ParseInputs ==
    {[op |-> "parse", impl |-> m, segs |-> g, full_name |-> Render(g)] :
        m \in {"upload_refresh", "queries"}, g \in SegLists}

\* db, schema, table = parse_table_name(full_table_name)  (upload_refresh.py)
ParseTableName ==
    /\ cpc = "input" /\ cin.op = "parse" /\ cin.impl = "upload_refresh"
    /\ cout' = parse_table_name(cin.full_name)
    /\ cpc' = "done"
    /\ UNCHANGED cin
    /\ UNCHANGED varsA
    /\ UNCHANGED varsB

\* db_name, schema, table = parse_table_name(full_table_name)
\* (src/database/connection.py, with the function of src/database/queries.py)
QueriesParseTableName ==
    /\ cpc = "input" /\ cin.op = "parse" /\ cin.impl = "queries"
    /\ cout' = queries_parse_table_name(cin.full_name)
    /\ cpc' = "done"
    /\ UNCHANGED cin
    /\ UNCHANGED varsA
    /\ UNCHANGED varsB

InitSchema ==
    /\ cpc = "input"
    /\ cin \in ColumnInputs \cup ParseInputs
    /\ cout = << >>
    /\ IdleA
    /\ IdleB

NextSchema ==
    \/ GetTableColumns
    \/ ParseTableName
    \/ QueriesParseTableName

SpecSchema == InitSchema /\ [][NextSchema]_vars

\* C20: a reference of three segments parses to (database, schema, table),
\* one of two segments to (None, schema, table), one of one segment to
\* (None, 'dbo', table), and a reference of no segment or of more than three
\* fails with ValueError.  The segments may be plain or bracketed for the
\* function of upload_refresh.py; for the function of queries.py, which reads
\* bracketed groups, they are bracketed.
C20_OneToThreeSegments ==
    ( /\ cpc = "done" /\ cin.op = "parse"
      /\ cin.impl = "queries" =>
            \A k \in 1..Len(cin.segs) : cin.segs[k].bracketed ) =>
        LET g == cin.segs IN
        CASE Len(g) = 3 ->
                cout = [status |-> "ok", db |-> g[1].name,
                        schema |-> g[2].name, table |-> g[3].name]
          [] Len(g) = 2 ->
                cout = [status |-> "ok", db |-> NoDatabase,
                        schema |-> g[1].name, table |-> g[2].name]
          [] Len(g) = 1 ->
                cout = [status |-> "ok", db |-> NoDatabase,
                        schema |-> <<"d", "b", "o">>, table |-> g[1].name]
          [] OTHER -> cout.status = "ValueError"

\* C20 witness: the function of queries.py has parsed a reference of one
\* bracketed segment, giving it the schema dbo.
C20_Witness ==
    /\ cpc = "done" /\ cin.op = "parse" /\ cin.impl = "queries"
    /\ Len(cin.segs) = 1 /\ cin.segs[1].bracketed
    /\ cout.status = "ok" /\ cout.schema = <<"d", "b", "o">>


(***************************************************************************)
(* Part C: the cells of one column                                         *)
(*                                                                         *)
(* A cell is [t, s, n, m]: t says what it holds; s is the text of a str;   *)
(* n is a number in tenths (t = "num"), 1 or 0 (t = "bool") or the         *)
(* proleptic Gregorian ordinal of a day (t = "time", "date"); m is the     *)
(* second of the day of a "time".  "null" stands for None, NaN, pd.NA and  *)
(* pd.NaT alike (all of them satisfy pd.isna).                             *)
(***************************************************************************)
NullV == [t |-> "null", s |-> << >>, n |-> 0, m |-> 0]
StrV(x) == [t |-> "str", s |-> x, n |-> 0, m |-> 0]
NumV(tenths) == [t |-> "num", s |-> << >>, n |-> tenths, m |-> 0]
BoolV(b) == [t |-> "bool", s |-> << >>, n |-> IF b THEN 1 ELSE 0, m |-> 0]
TimeV(day, sec) == [t |-> "time", s |-> << >>, n |-> day, m |-> sec]
DateV(day) == [t |-> "date", s |-> << >>, n |-> day, m |-> 0]

\* pd.isna(v)
IsNa(v) == v.t = "null"

\* The SQL types of the columns the model coerces, besides those above.
T_float == <<"f", "l", "o", "a", "t">>
T_datetime2 == <<"d", "a", "t", "e", "t", "i", "m", "e", "2">>
T_smalldatetime ==
    <<"s", "m", "a", "l", "l", "d", "a", "t", "e", "t", "i", "m", "e">>
T_bigint == <<"b", "i", "g", "i", "n", "t">>

\* sql_type_to_coercion(data_type)
sql_type_to_coercion(data_type) ==
    LET t == TextLower(data_type)
        has(w) == TextIn(w, t)
    IN
    IF t \in {T_int, <<"s", "m", "a", "l", "l", "i", "n", "t">>, T_bigint,
              <<"t", "i", "n", "y", "i", "n", "t">>} THEN "int"
    ELSE IF t \in {<<"d", "e", "c", "i", "m", "a", "l">>,
                   <<"n", "u", "m", "e", "r", "i", "c">>,
                   <<"m", "o", "n", "e", "y">>,
                   <<"s", "m", "a", "l", "l", "m", "o", "n", "e", "y">>,
                   T_float, <<"r", "e", "a", "l">>} THEN "float"
    ELSE IF t \in {T_bit} THEN "bool"
    ELSE IF has(T_char) \/ has(<<"t", "e", "x", "t">>) \/ has(<<"x", "m", "l">>)
            \/ has(<<"u", "n", "i", "q", "u", "e", "i", "d", "e", "n", "t", "i", "f", "i", "e", "r">>)
         THEN "str"
    ELSE IF has(T_date) \/ has(<<"t", "i", "m", "e">>) \/ has(T_datetime)
            \/ has(T_smalldatetime) THEN "datetime"
    ELSE "str"

(***************************************************************************)
(* Part C: numbers (pd.to_numeric, astype('Int64'))                        *)
(***************************************************************************)
Digits == <<"0", "1", "2", "3", "4", "5", "6", "7", "8", "9">>
IsDigit(c) == \E k \in 1..Len(Digits) : Digits[k] = c
DigitOf(c) == (CHOOSE k \in 1..Len(Digits) : Digits[k] = c) - 1
AllDigits(s) == s # << >> /\ \A k \in 1..Len(s) : IsDigit(s[k])

\* the value of a text of digits
RECURSIVE DigitsValue(_)
DigitsValue(s) ==
    IF s = << >> THEN 0
    ELSE 10 * DigitsValue(SubSeq(s, 1, Len(s) - 1)) + DigitOf(s[Len(s)])

\* pd.to_numeric(..., errors='coerce') on one cell: a number stays, a text
\* that reads as a number (here: digits, or digits, a point and one digit)
\* becomes that number, every other text becomes NaN.
ToNumeric(v) ==
    IF v.t = "num" THEN v
    ELSE IF v.t = "bool" THEN NumV(10 * v.n)
    ELSE IF v.t # "str" THEN NullV
    ELSE LET w == TextStrip(v.s)
             p == FirstIndex(w, ".")
         IN  IF AllDigits(w) THEN NumV(10 * DigitsValue(w))
             ELSE IF /\ p > 1 /\ Len(w) = p + 1
                     /\ AllDigits(SubSeq(w, 1, p - 1)) /\ IsDigit(w[p + 1])
                  THEN NumV(10 * DigitsValue(SubSeq(w, 1, p - 1)) + DigitOf(w[p + 1]))
                  ELSE NullV

\* Series.astype('Int64') on a float column: pandas casts only when every
\* number is integral and raises TypeError (cannot safely cast
\* non-equivalent float64 to int64) otherwise.
SafeCastRaises(col) ==
    \E k \in 1..Len(col) : ~IsNa(col[k]) /\ col[k].n % 10 # 0

(***************************************************************************)
(* Part C: convert_to_bit and the bit columns of upload_df_to_table        *)
(***************************************************************************)
\* if v_str in ('1', 'true', 'yes', 'y', 't', 'on')
TrueWords ==
    {<<"1">>, <<"t", "r", "u", "e">>, <<"y", "e", "s">>,
     <<"y">>, <<"t">>, <<"o", "n">>}
\* elif v_str in ('0', 'false', 'no', 'n', 'f', 'off', '')
FalseWords ==
    {<<"0">>, <<"f", "a", "l", "s", "e">>, <<"n", "o">>,
     <<"n">>, <<"f">>, <<"o", "f", "f">>, << >>}

\* the test for blank text left out
IsBlankNever(v) == FALSE
\* if isinstance(v, str) and v.strip() == ''
IsBlank(v) == v.t = "str" /\ TextStrip(v.s) = << >>

\* convert_to_bit(v)
convert_to_bit(v) ==
    IF IsNa(v) THEN NullV
    ELSE IF IsBlank(v) THEN NullV
    ELSE IF v.t = "bool" THEN v
    ELSE IF v.t = "num"
         THEN IF v.n = 10 THEN BoolV(TRUE)
              ELSE IF v.n = 0 THEN BoolV(FALSE)
              ELSE NullV
    ELSE IF v.t # "str" THEN NullV
    ELSE LET v_str == TextLower(TextStrip(v.s)) IN
         IF v_str \in TrueWords THEN BoolV(TRUE)
         ELSE IF v_str \in FalseWords THEN BoolV(FALSE)
         ELSE NullV

\* bool(val)
PyBool(v) ==
    CASE v.t = "str" -> v.s # << >>
      [] v.t = "num" -> v.n # 0
      [] v.t = "bool" -> v.n = 1
      [] OTHER -> TRUE

\* upload_df_to_table, the value appended for a cell of a bit column
BitSent(val) ==
    IF IsNa(val) THEN NullV
    ELSE IF val.t = "bool" THEN val
    ELSE IF val.t = "num" /\ val.n \in {0, 10} THEN BoolV(val.n = 10)
    ELSE BoolV(PyBool(val))

(***************************************************************************)
(* Part C: strings                                                         *)
(***************************************************************************)
\* the longest text of a cell of a character column
MaxStr == 4

\* x[:n] that cuts nothing
SliceKeepsAll(x, n) == x
\* x[:n]
Slice(x, n) == SubSeq(x, 1, Min(n, Len(x)))

\* prepare_dataframe_for_table, string columns: astype('string'), then
\* str(x)[:char_max_length] if pd.notna(x) else None when a limit is defined.
PrepareStr(v, char_max_length) ==
    IF IsNa(v) THEN NullV
    ELSE IF char_max_length # NoLength /\ char_max_length > 0
         THEN StrV(Slice(v.s, char_max_length))
         ELSE v

\* col_max_lengths of upload_df_to_table has the column when
\* `max_length and max_length > 0`.
InColMaxLengths(max_length) == max_length # NoLength /\ max_length > 0

\* upload_df_to_table, a cell that is not of a bit column: the value
\* appended (str values are cut to the column's length) ...
StrSent(val, max_length) ==
    IF IsNa(val) THEN NullV
    ELSE IF val.t = "str" /\ InColMaxLengths(max_length) /\ Len(val.s) > max_length
         THEN StrV(Slice(val.s, max_length))
         ELSE val

\* ... and the number of 'Warning: Truncated ...' lines printed for it.
StrWarnings(val, max_length) ==
    IF ~IsNa(val) /\ val.t = "str" /\ InColMaxLengths(max_length)
          /\ Len(val.s) > max_length
    THEN 1 ELSE 0

(***************************************************************************)
(* Part C: dates and times                                                 *)
(*                                                                         *)
(* A day is its proleptic Gregorian ordinal (date.toordinal()): 1 is       *)
(* 0001-01-01.  A "time" cell is a value that reads as that day and second *)
(* (a datetime, or a text such as '1753-01-01 00:00:00'); a "time" whose   *)
(* day is below 1 or above 3652059 stands for a text such as '0000-12-31', *)
(* which no datetime can hold.                                             *)
(***************************************************************************)
\* date_type(1, 1, 1).toordinal()
MinDateDay == 1
\* date_type(9999, 12, 31).toordinal()
MaxDateDay == 3652059
\* pd.Timestamp('1753-01-01'): its day and its second of the day
MinDatetimeDay == 639906
MinDatetimeSec == 0
\* pd.Timestamp('9999-12-31 23:59:59'): its second of the day
MaxDatetimeSec == 86399
\* pd.Timestamp.min and pd.Timestamp.max of the nanosecond resolution
\* (1677-09-21 00:12:43.145..., 2262-04-11 23:47:16.854...): the days, and
\* the first and the last whole second that can be held.
NsMinDay == 612411
NsMinSec == 764
NsMaxDay == 825914
NsMaxSec == 85636

\* the days the model looks at on each side of each of these days
Slack == 1

\* (d1, s1) < (d2, s2) or equal
BeforeOrAt(d1, s1, d2, s2) == d1 < d2 \/ (d1 = d2 /\ s1 <= s2)
\* (d1, s1) < (d2, s2)
Before(d1, s1, d2, s2) == d1 < d2 \/ (d1 = d2 /\ s1 < s2)

\* pd.to_datetime(..., errors='coerce') on one cell.  A value no datetime can
\* hold becomes NaT; so does, when the Series has nanosecond resolution (the
\* default of pandas through 2.x), a value outside Timestamp.min .. max.
ToDatetime(v, nanosecond) ==
    IF v.t # "time" THEN NullV
    ELSE IF v.n < MinDateDay \/ v.n > MaxDateDay THEN NullV
    ELSE IF nanosecond /\ ( \/ Before(v.n, v.m, NsMinDay, NsMinSec)
                            \/ Before(NsMaxDay, NsMaxSec, v.n, v.m) )
         THEN NullV
         ELSE v

\* upload_df_to_table, DATE columns: to_datetime, .dt.date, and None under
\* mask = isna | (date < min_date) | (date > max_date).
DateSent(val, nanosecond) ==
    LET dt == ToDatetime(val, nanosecond) IN
    IF IsNa(dt) \/ dt.n < MinDateDay \/ dt.n > MaxDateDay THEN NullV
    ELSE DateV(dt.n)

\* upload_df_to_table, DATETIME columns: to_datetime, NaT under
\* mask = (dt < min_datetime) | (dt > max_datetime); to_pydatetime per row.
DatetimeSent(val, nanosecond) ==
    LET dt == ToDatetime(val, nanosecond) IN
    IF IsNa(dt) THEN NullV
    ELSE IF \/ Before(dt.n, dt.m, MinDatetimeDay, MinDatetimeSec)
            \/ Before(MaxDateDay, MaxDatetimeSec, dt.n, dt.m)
         THEN NullV
         ELSE dt

\* col_is_datetime[col_name]
IsDatetimeColumn(sql_type) ==
    TextLower(sql_type) \in {T_datetime, T_datetime2, T_smalldatetime}

\* col_is_date_only[col_name]
IsDateOnlyColumn(sql_type) == TextLower(sql_type) = T_date

(***************************************************************************)
(* Part C (SpecCoerce): one column through the coercion loop of            *)
(* prepare_dataframe_for_table and the row conversion of                   *)
(* upload_df_to_table                                                      *)
(***************************************************************************)
\* the most cells of a column of an integer type
MaxCells == 2

\* What the model puts in the cells of an integer column.
IntCells ==
    {NullV, NumV(10), NumV(15), StrV(<<"7">>), StrV(<<"3", ".", "5">>),
     StrV(<<"a", "b", "c">>), StrV(<< >>)}

\* What the model puts in the cells of a bit column.
BitTexts ==
    TrueWords \cup FalseWords \cup
    {<<"T", "R", "U", "E">>, <<"Y", "e", "s">>, <<" ", "y", " ">>, <<"O", "N">>,
     <<"F", "a", "l", "s", "e">>, <<"N", "O">>, <<"O", "f", "f">>, <<" ">>,
     <<" ", "0">>, <<"2">>, <<"m", "a", "y", "b", "e">>}
BitCells ==
    {NullV, BoolV(TRUE), BoolV(FALSE), NumV(10), NumV(0), NumV(20), NumV(5)}
        \cup {StrV(w) : w \in BitTexts}

\* What the model puts in the cells of a character column.
StrCells ==
    {NullV} \cup UNION {{StrV(x) : x \in [1..n -> {"a", "b"}]} : n \in 0..MaxStr}

\* A value in the text form of a uniqueidentifier (36 characters).
GuidText == [k \in 1..36 |-> IF k \in {9, 14, 19, 24} THEN "-" ELSE "a"]

\* What the model puts in the cells of a date or datetime column.
TimeDays ==
    UNION {(d - Slack)..(d + Slack) :
              d \in {MinDateDay, NsMinDay, MinDatetimeDay, NsMaxDay, MaxDateDay}}
TimeSecs == {0, NsMinSec - 1, NsMinSec, NsMaxSec, NsMaxSec + 1, MaxDatetimeSec}
TimeCells ==
    {NullV, StrV(<<"a", "b", "c">>)} \cup {TimeV(d, s) : d \in TimeDays, s \in TimeSecs}

\* A column of the frame, with its triple of table_cols; nanosecond tells
\* whether the pandas in use gives to_datetime nanosecond resolution.
CoerceInputs ==
    {[op |-> "coerce", sql_type |-> ty, col |-> c, char_max_length |-> 4,
      nanosecond |-> FALSE] :
        ty \in {T_int, T_bigint, T_float},
        c \in UNION {[1..n -> IntCells] : n \in 1..MaxCells}} \cup
    {[op |-> "coerce", sql_type |-> T_bit, col |-> <<v>>, char_max_length |-> 1,
      nanosecond |-> FALSE] : v \in BitCells} \cup
    {[op |-> "coerce", sql_type |-> ty, col |-> <<v>>, char_max_length |-> n,
      nanosecond |-> FALSE] :
        ty \in {T_nvarchar, T_varchar}, v \in StrCells, n \in 0..MaxStr} \cup
    UNION {{[op |-> "coerce", sql_type |-> ty, col |-> <<v>>,
             char_max_length |-> ReportedCharMax(ty, b), nanosecond |-> FALSE] :
               v \in StrCells \cup {StrV(GuidText)}, b \in DriverLengths(ty)} :
           ty \in OtherStrTypes} \cup
    {[op |-> "coerce", sql_type |-> ty, col |-> <<v>>, char_max_length |-> 8,
      nanosecond |-> ns] :
        ty \in {T_date, T_datetime, T_datetime2, T_smalldatetime},
        v \in TimeCells, ns \in BOOLEAN}

\* One turn of `for col_name, sql_type, char_max_length in table_cols` of
\* prepare_dataframe_for_table, for the column of cin.
CoercedColumn(a) ==
    LET coercion == sql_type_to_coercion(a.sql_type)
        each(f(_)) == [k \in 1..Len(a.col) |-> f(a.col[k])]
        dt(v) == ToDatetime(v, a.nanosecond)
        str(v) == PrepareStr(v, a.char_max_length)
    IN  CASE coercion = "int" ->
                IF SafeCastRaises(each(ToNumeric))
                THEN [status |-> "TypeError", col |-> << >>]
                ELSE [status |-> "ok", col |-> each(ToNumeric)]
          [] coercion = "float" -> [status |-> "ok", col |-> each(ToNumeric)]
          [] coercion = "bool" -> [status |-> "ok", col |-> each(convert_to_bit)]
          [] coercion = "datetime" -> [status |-> "ok", col |-> each(dt)]
          [] OTHER -> [status |-> "ok", col |-> each(str)]

\* upload_df_to_table: the value appended to row_data for a cell of the
\* column, after the bulk processing of DATE and DATETIME columns.
CellSent(a, val) ==
    IF TextIn(T_bit, TextLower(a.sql_type)) THEN BitSent(val)
    ELSE IF IsDateOnlyColumn(a.sql_type) THEN DateSent(val, a.nanosecond)
    ELSE IF IsDatetimeColumn(a.sql_type) THEN DatetimeSent(val, a.nanosecond)
    ELSE StrSent(val, a.char_max_length)

\* The 'Warning: Truncated ...' lines printed for the cells of the column.
RECURSIVE ColumnWarnings(_, _)
ColumnWarnings(col, max_length) ==
    IF col = << >> THEN 0
    ELSE StrWarnings(Head(col), max_length) + ColumnWarnings(Tail(col), max_length)

WarningsOf(a, col) ==
    IF \/ TextIn(T_bit, TextLower(a.sql_type))
       \/ IsDateOnlyColumn(a.sql_type) \/ IsDatetimeColumn(a.sql_type)
    THEN 0
    ELSE ColumnWarnings(col, a.char_max_length)

InitCoerce ==
    /\ cpc = "input"
    /\ cin \in CoerceInputs
    /\ cout = << >>
    /\ IdleA
    /\ IdleB

\* df_prepared = prepare_dataframe_for_table(df, table_cols): the coercion
\* loop; an exception raised by it leaves the function.
CoerceTypes ==
    /\ cpc = "input" /\ cin.op = "coerce"
    /\ LET r == CoercedColumn(cin) IN
          /\ cout' = [status |-> r.status, prepared |-> r.col,
                      sent |-> << >>, warnings |-> 0]
          /\ cpc' = IF r.status = "ok" THEN "prepared" ELSE "raised"
    /\ UNCHANGED cin
    /\ UNCHANGED varsA
    /\ UNCHANGED varsB

\* upload_df_to_table(conn, df_prepared, ...) up to the list of row tuples.
ConvertRows ==
    /\ cpc = "prepared" /\ cin.op = "coerce"
    /\ cout' = [cout EXCEPT
                  !.sent = [k \in 1..Len(cout.prepared) |->
                               CellSent(cin, cout.prepared[k])],
                  !.warnings = WarningsOf(cin, cout.prepared)]
    /\ cpc' = "done"
    /\ UNCHANGED cin
    /\ UNCHANGED varsA
    /\ UNCHANGED varsB

NextCoerce ==
    \/ CoerceTypes
    \/ ConvertRows

SpecCoerce == InitCoerce /\ [][NextCoerce]_vars


(***************************************************************************)
(* Part C: claims                                                          *)
(***************************************************************************)
\* The column of cin is coerced as a string and has a length limit.
LimitedStrColumn ==
    /\ cin.op = "coerce" /\ sql_type_to_coercion(cin.sql_type) = "str"
    /\ cin.char_max_length > 0

\* C15 (as claimed): a string longer than the column's limit is sent cut to
\* its first maxCharLength characters and adds 1 to the truncation count
\* reported for the upload; a string not longer than the limit is sent
\* unchanged and adds nothing.
C15_TruncationIsCounted ==
    (cpc = "done" /\ LimitedStrColumn /\ cin.col[1].t = "str") =>
        LET x == cin.col[1].s
            n == cin.char_max_length
        IN  IF Len(x) > n
            THEN cout.sent[1] = StrV(SubSeq(x, 1, n)) /\ cout.warnings = 1
            ELSE cout.sent[1] = StrV(x) /\ cout.warnings = 0

\* C15 (amended): a string longer than the column's limit is sent cut to its
\* first maxCharLength characters, a string not longer is sent unchanged, and
\* nothing raises; no truncation is counted or reported: the cut is made
\* silently by prepare_dataframe_for_table, so that upload_df_to_table finds
\* no value to cut and prints no warning.
C15_TruncatesSilently ==
    (cpc \in {"prepared", "done"} /\ LimitedStrColumn /\ cin.col[1].t = "str") =>
        LET x == cin.col[1].s
            n == cin.char_max_length
            cut == IF Len(x) > n THEN StrV(SubSeq(x, 1, n)) ELSE StrV(x)
        IN  /\ cout.status = "ok"
            /\ cout.prepared[1] = cut
            /\ cpc = "done" => (cout.sent[1] = cut /\ cout.warnings = 0)

\* C15 witness: a string of four characters went to a column of two.
C15_Witness ==
    /\ cpc = "done" /\ LimitedStrColumn
    /\ cin.col[1] = StrV(<<"a", "b", "b", "a">>) /\ cin.char_max_length = 2
    /\ cout.sent[1] = StrV(<<"a", "b">>)

\* The cell reads as a whole number.
ReadsAsInteger(v) == ToNumeric(v).t = "num" /\ ToNumeric(v).n % 10 = 0

\* C16 (as claimed): in a column of an integer type no cell makes the
\* coercion raise: prepare_dataframe_for_table completes, every cell that
\* does not read as an integer is null and every other cell is its integer.
C16_IntegerCoercionNeverRaises ==
    (cpc # "input" /\ cin.op = "coerce"
        /\ sql_type_to_coercion(cin.sql_type) = "int") =>
        /\ cpc # "raised" /\ cout.status = "ok"
        /\ \A k \in 1..Len(cin.col) :
              cout.prepared[k] = IF ReadsAsInteger(cin.col[k])
                                 THEN ToNumeric(cin.col[k]) ELSE NullV

\* The column of cin is a bit column.
BitColumn == cin.op = "coerce" /\ sql_type_to_coercion(cin.sql_type) = "bool"

\* C17 (as claimed): a bit cell that is 1, true, yes, y, t or on (in any
\* case) is sent as true; one that is 0, false, no, n, f, off or the empty
\* string is sent as false; an absent one and any other one is sent as
\* null.
C17_EmptyStringIsFalse ==
    (cpc = "done" /\ BitColumn) =>
        LET v == cin.col[1]
            w == TextLower(v.s)
            sent == cout.sent[1]
        IN  CASE v.t = "null" -> sent = NullV
              [] v.t = "bool" -> sent = v
              [] v.t = "num" -> sent = IF v.n = 10 THEN BoolV(TRUE)
                                       ELSE IF v.n = 0 THEN BoolV(FALSE)
                                       ELSE NullV
              [] v.t = "str" /\ w \in TrueWords -> sent = BoolV(TRUE)
              [] v.t = "str" /\ w \in FalseWords -> sent = BoolV(FALSE)
              [] OTHER -> sent \in {BoolV(TRUE), BoolV(FALSE), NullV}

\* C17 (amended): as claimed, with the text trimmed before it is compared,
\* except that a text that is empty or all spaces is sent as null; what is
\* sent is always true, false or null.
C17_BlankIsNull ==
    (cpc = "done" /\ BitColumn) =>
        LET v == cin.col[1]
            w == TextLower(TextStrip(v.s))
            sent == cout.sent[1]
        IN  /\ sent \in {BoolV(TRUE), BoolV(FALSE), NullV}
            /\ CASE v.t = "null" -> sent = NullV
                 [] v.t = "bool" -> sent = v
                 [] v.t = "num" -> sent = IF v.n = 10 THEN BoolV(TRUE)
                                          ELSE IF v.n = 0 THEN BoolV(FALSE)
                                          ELSE NullV
                 [] v.t = "str" /\ w = << >> -> sent = NullV
                 [] v.t = "str" /\ w \in TrueWords -> sent = BoolV(TRUE)
                 [] v.t = "str" /\ w \in FalseWords -> sent = BoolV(FALSE)
                 [] OTHER -> sent = NullV

\* C17 witness: 'TRUE' was sent as true.
C17_Witness ==
    /\ cpc = "done" /\ BitColumn
    /\ cin.col[1] = StrV(<<"T", "R", "U", "E">>)
    /\ cout.sent[1] = BoolV(TRUE)

\* C17 witness of the amended case: the empty string was sent as null.
C17_WitnessBlank ==
    /\ cpc = "done" /\ BitColumn
    /\ cin.col[1] = StrV(<< >>) /\ cout.sent[1] = NullV

C18_WitnessBelow ==
    /\ cpc = "done" /\ cin.op = "coerce" /\ cin.sql_type = T_datetime
    /\ cin.col[1] = TimeV(639905, 86399) /\ cout.sent[1] = NullV

\* C19 (as claimed): in a date column a value of a day from 0001-01-01 to
\* 9999-12-31 is sent as that day, without its time of day, and a value
\* outside (such as 0000-12-31) is sent as null.
C19_DateRangeKept ==
    (cpc = "done" /\ cin.op = "coerce" /\ IsDateOnlyColumn(cin.sql_type)
        /\ cin.col[1].t = "time") =>
        LET v == cin.col[1] IN
        cout.sent[1] = IF 1 <= v.n /\ v.n <= 3652059 THEN DateV(v.n) ELSE NullV


\* The segments with every one written plain, and with every one bracketed.
AllPlain(segs) == [k \in 1..Len(segs) |-> [segs[k] EXCEPT !.bracketed = FALSE]]
AllBracketed(segs) == [k \in 1..Len(segs) |-> [segs[k] EXCEPT !.bracketed = TRUE]]

\* C21 (as claimed): brackets are optional around each segment: whichever
\* function parsed the reference, its result is what both functions give for
\* the reference itself, for its plain form and for its bracketed form.
C21_BracketsOptionalInBoth ==
    (cpc = "done" /\ cin.op = "parse") =>
        \A form \in {cin.full_name, Render(AllPlain(cin.segs)),
                     Render(AllBracketed(cin.segs))} :
            /\ cout = parse_table_name(form)
            /\ cout = queries_parse_table_name(form)


(***************************************************************************)
(* Part A: further claims                                                  *)
(***************************************************************************)
\* C22: in truncate mode, when TRUNCATE TABLE fails and the DELETE FROM that
\* follows succeeds, the inserts start on an emptied table and a call that
\* returns leaves the table holding exactly the rows of the frame, in order,
\* as a delete-mode upload does.
C22_TruncateFallsBackToDelete ==
    clearing = "fallback" =>
        /\ upload_mode = "truncate"
        /\ (pc = "insert" /\ issued = << >>) => work = << >>
        /\ pc = "returned" => (table = data /\ failedBatch = 0)

\* C22 witness: TRUNCATE failed on a table that held rows, the DELETE went
\* through and a frame of several batches has been uploaded.
C22_Witness ==
    /\ clearing = "fallback" /\ pc = "returned"
    /\ startTable # << >> /\ Len(data) > batch_size /\ table = data


\* The rows of the frame of the current call that the open transaction sees.
WorkOfCall == SelectSeq(work, LAMBDA r : r[1] = fileNo)

\* the batch numbers 1..n in order
UpTo(n) == [k \in 1..n |-> k]

\* C23: the frame is sent as consecutive batches of at most batch_size rows
\* that partition it in row order: when the batch at offset i is about to be
\* inserted, the batches before it are exactly the rows 1..i of the frame and
\* all of them are committed; after the insert only that batch is
\* uncommitted; when the call returns every row is committed once, in order.
C23_BatchesPartitionInOrder ==
    /\ pc \in {"insert", "commit"} =>
          /\ i % batch_size = 0
          /\ Len(Batch(data, i)) <= batch_size
          /\ CommittedOfCall = SubSeq(data, 1, i)
    /\ pc = "insert" =>
          /\ issued = UpTo(BatchNum(i) - 1)
          /\ WorkOfCall = CommittedOfCall
    /\ pc = "commit" =>
          /\ issued = UpTo(BatchNum(i))
          /\ WorkOfCall = SubSeq(data, 1, i) \o Batch(data, i)
          /\ Len(WorkOfCall) - Len(CommittedOfCall) <= batch_size
    /\ pc = "returned" =>
          /\ CommittedOfCall = data
          /\ issued = UpTo(BatchNum(i))

\* C23 witness: a frame of three batches, the last one short, with its third
\* batch inserted and not yet committed.
C23_Witness ==
    /\ pc = "commit" /\ i = 2 * batch_size /\ Len(data) = 2 * batch_size + 1
    /\ Len(CommittedOfCall) = 2 * batch_size
    /\ Len(WorkOfCall) = Len(data)


(***************************************************************************)
(* Part D (SpecChunks): upload_excel_in_chunks                             *)
(*                                                                         *)
(* cin holds the arguments of the call and the file: total_rows data rows  *)
(* under one header row.  cout holds the locals of the call in progress    *)
(* (start_row, chunk_num, total_uploaded), the table as committed (table)  *)
(* and as the open transaction sees it (work), and the statements          *)
(* executed so far (log).  Data row j of the file is <<1, j>>; it is row   *)
(* j + 1 of the sheet.                                                     *)
(***************************************************************************)
\* the most data rows of the file, and the largest chunk_size
MaxFileRows == 4
MaxChunk == 3

\* pd.read_excel(file_path, skiprows=list(range(0, start_row - 1)),
\* nrows=rows_to_read) (pd.read_csv likewise): the sheet rows before
\* start_row are skipped, the first row left (sheet row start_row) is taken
\* as the header row, and the rows_to_read rows after it, as far as the file
\* goes, are the rows of the frame.  In numbers of data rows:
ReadChunk(total, start_row, rows_to_read) ==
    LET first == start_row
        last == Min(total, start_row + rows_to_read - 1)
    IN  IF last < first THEN << >>
        ELSE [k \in 1..(last - first + 1) |-> <<1, first + k - 1>>]

\* chunk_upload_mode, were it upload_mode for every chunk
ChunkUploadModeSame(chunk_num, mode) == mode
\* chunk_upload_mode = 'append' if chunk_num > 1 else upload_mode
ChunkUploadMode(chunk_num, mode) ==
    IF chunk_num > 1 THEN "append" ELSE mode

InitChunks ==
    /\ cpc = "input"
    /\ cin \in [op : {"chunks"}, total_rows : 0..MaxFileRows,
                chunk_size : 1..MaxChunk, upload_mode : {"append", "delete"},
                old : 0..1]
    /\ cout = << >>
    /\ IdleA
    /\ IdleB

\* The analysis of the file and `if upload_mode == 'delete'`: DELETE FROM and
\* commit, or a warning and a rollback when the DELETE raises.
ChunksBegin ==
    /\ cpc = "input" /\ cin.op = "chunks"
    /\ \E deleted \in BOOLEAN :
          /\ (cin.upload_mode # "delete") => ~deleted
          /\ cout' = [start_row |-> 2, chunk_num |-> 0, total_uploaded |-> 0,
                      table |-> IF deleted THEN ExecuteDelete(OldRows(cin.old))
                                ELSE OldRows(cin.old),
                      work |-> IF deleted THEN ExecuteDelete(OldRows(cin.old))
                               ELSE OldRows(cin.old),
                      log |-> IF cin.upload_mode # "delete" THEN << >>
                              ELSE IF deleted THEN <<"DELETE">>
                              ELSE <<"DELETE failed">>,
                      returned |-> -1]
    /\ cpc' = "loop"
    /\ UNCHANGED cin
    /\ UNCHANGED varsA
    /\ UNCHANGED varsB

\* One turn of `while start_row <= total_rows + 1`: read the chunk, leave the
\* loop when it is empty, otherwise upload_df_to_table with the chunk's mode
\* (which clears the table first in delete mode, or warns when that fails),
\* commit, and move start_row; an exception raised by the inserts leaves the
\* function with the batches before the failing one committed.
ChunkStep ==
    /\ cpc = "loop" /\ cin.op = "chunks"
    /\ cout.start_row <= cin.total_rows + 1
    /\ LET chunk_num == cout.chunk_num + 1
           rows_to_read == Min(cin.chunk_size, cin.total_rows + 2 - cout.start_row)
           df_chunk == ReadChunk(cin.total_rows, cout.start_row, rows_to_read)
           mode == ChunkUploadMode(chunk_num, cin.upload_mode)
       IN  IF rows_to_read <= 0 \/ df_chunk = << >>
           THEN /\ cout' = [cout EXCEPT !.chunk_num = chunk_num]
                /\ cpc' = "final"
           ELSE \E deleted \in BOOLEAN :
                   /\ (mode # "delete") => ~deleted
                   /\ LET cleared == IF deleted THEN ExecuteDelete(cout.work)
                                     ELSE cout.work
                          stmts == IF mode # "delete" THEN cout.log
                                   ELSE IF deleted THEN Append(cout.log, "DELETE")
                                   ELSE Append(cout.log, "DELETE failed")
                      IN  \/ /\ cout' = [cout EXCEPT
                                   !.chunk_num = chunk_num,
                                   !.work = cleared \o df_chunk,
                                   !.table = cleared \o df_chunk,
                                   !.log = Append(stmts, "INSERT"),
                                   !.total_uploaded = @ + Len(df_chunk),
                                   !.start_row = @ + rows_to_read]
                             /\ cpc' = "loop"
                          \/ \E p \in 0..(Len(df_chunk) - 1) :
                                /\ p % batch_size = 0
                                /\ cout' = [cout EXCEPT
                                      !.chunk_num = chunk_num,
                                      !.work = cleared \o SubSeq(df_chunk, 1, p),
                                      !.table = IF p = 0 THEN @
                                                ELSE cleared \o SubSeq(df_chunk, 1, p),
                                      !.log = Append(stmts, "INSERT failed")]
                                /\ cpc' = "raised"
    /\ UNCHANGED cin
    /\ UNCHANGED varsA
    /\ UNCHANGED varsB

\* The loop is over: the final commit, and return total_uploaded.
ChunksReturn ==
    /\ \/ cpc = "final"
       \/ cpc = "loop" /\ cout.start_row > cin.total_rows + 1
    /\ cin.op = "chunks"
    /\ cout' = [cout EXCEPT !.returned = cout.total_uploaded, !.table = cout.work]
    /\ cpc' = "done"
    /\ UNCHANGED cin
    /\ UNCHANGED varsA
    /\ UNCHANGED varsB

NextChunks ==
    \/ ChunksBegin
    \/ ChunkStep
    \/ ChunksReturn

SpecChunks == InitChunks /\ [][NextChunks]_vars

\* The rows of the file that are committed in the table, in table order.
FileRowsCommitted == SelectSeq(cout.table, LAMBDA r : r[1] = 1)

\* C24 (as claimed): when the call returns, every data row of the file has
\* been uploaded exactly once, in file order, and the total returned is the
\* number of data rows.
C24_EveryDataRowUploadedOnce ==
    (cpc = "done" /\ cin.op = "chunks") =>
        /\ FileRowsCommitted = FrameRows(1, cin.total_rows)
        /\ cout.returned = cin.total_rows


\* C25: in upload_excel_in_chunks the table is cleared only before the first
\* rows of the file are inserted: no DELETE is executed after an INSERT, and
\* the rows that earlier chunks committed stay in the table, in order, while
\* later chunks are added behind them.
C25_ClearedOnlyBeforeFirstChunk ==
    (cin.op = "chunks" /\ cpc \in {"loop", "final", "done"}) =>
        /\ \A a \in DOMAIN cout.log : \A b \in DOMAIN cout.log :
              (a < b /\ cout.log[a] = "INSERT") =>
                  cout.log[b] \notin {"DELETE", "DELETE failed"}
        /\ Len(FileRowsCommitted) = cout.total_uploaded
        /\ \A k \in 1..Len(FileRowsCommitted) : FileRowsCommitted[k] = <<1, k + 1>>

C25_Witness ==
    /\ cin.op = "chunks" /\ cin.upload_mode = "delete"
    /\ cpc = "done"
    /\ cout.log = <<"DELETE", "DELETE", "INSERT", "INSERT">>
    /\ cout.total_uploaded > cin.chunk_size


\* Every call of the run returned having executed every statement
\* successfully, and the connection has been closed after the last file.
FullySuccessfulRun ==
    /\ pc = "closed" /\ done # << >>
    /\ \A k \in 1..Len(done) : done[k].result = "returned" /\ ~done[k].clearFailed

\* C26: several files uploaded to one table in delete mode: the table is
\* cleared again before each file's rows are inserted, so after each file it
\* holds that file's rows only, and after a fully successful run exactly the
\* rows of the last file.
C26_DeleteModeKeepsLastFileOnly ==
    (upload_mode = "delete" /\ FullySuccessfulRun) =>
        /\ \A k \in 1..Len(done) : done[k].after = FrameRows(done[k].file, done[k].n)
        /\ table = FrameRows(done[Len(done)].file, done[Len(done)].n)
        /\ \A k \in 1..Len(table) : table[k][1] = done[Len(done)].file

C26_Witness ==
    /\ upload_mode = "delete" /\ FullySuccessfulRun
    /\ Len(done) = 2 /\ done[1].n > 0 /\ done[2].n > 0 /\ done[1].n # done[2].n
    /\ done[1].before # << >>
    /\ table = FrameRows(2, done[2].n)


\* C29: a call whose upload_mode is neither 'delete' nor 'truncate' executes
\* no clearing statement and raises nothing for the mode: the rows the table
\* held stay in front, in the transaction and as committed, an exception comes
\* only from a failed insert, and a call that returns has appended its frame.
C29_UnknownModeIsAppend ==
    (upload_mode \notin {"delete", "truncate"} /\ fileNo > 0) =>
        /\ clearing = "none"
        /\ pc \in {"raised", "failed"} => failedBatch # 0
        /\ Len(table) >= Len(startTable)
        /\ SubSeq(table, 1, Len(startTable)) = startTable
        /\ Len(work) >= Len(startTable)
        /\ SubSeq(work, 1, Len(startTable)) = startTable
        /\ pc = "returned" => table = startTable \o data

C29_Witness ==
    /\ upload_mode \in {"Delete", "replace"}
    /\ pc = "returned" /\ startTable # << >> /\ data # << >>
    /\ table = startTable \o data


\* C28 (as claimed): a column of a type that is coerced as a string and is not
\* a character type (uniqueidentifier, text, ntext, binary) has no maximum
\* length in the triple get_table_columns reports, and
\* prepare_dataframe_for_table leaves its values at full length.
C28_OnlyCharColumnsShortened ==
    (cin.op = "coerce" /\ cpc \in {"prepared", "done"}
        /\ TextLower(cin.sql_type) \in OtherStrTypes) =>
        /\ cin.char_max_length = NoLength
        /\ \A k \in 1..Len(cin.col) :
              ~IsNa(cin.col[k]) => cout.prepared[k] = cin.col[k]


(***************************************************************************)
(* Part E (SpecGui): the upload thread of DataUploaderGUI and the table    *)
(* selection of the main thread                                            *)
(*                                                                         *)
(* cin holds the table selected and the number of files chosen when the    *)
(* upload button is pressed.  cout holds self.current_upload_table, which  *)
(* both threads use, the table whose columns the upload thread fetched     *)
(* (table_cols), the index of the file it is at (idx), and the table each  *)
(* upload_df_to_table call was given (uploaded_to).                        *)
(***************************************************************************)
\* the most files of one GUI upload
MaxGuiFiles == 3

InitGui ==
    /\ cpc = "input"
    /\ cin \in [op : {"gui"}, files : 1..MaxGuiFiles,
                selected : {"dbo.T1", "dbo.T2", "dbo.T3"}]
    /\ cout = << >>
    /\ IdleA
    /\ IdleB

\* upload_current_files: a table and files are selected, the thread is started.
UploadCurrentFiles ==
    /\ cpc = "input" /\ cin.op = "gui"
    /\ cout' = [current_upload_table |-> cin.selected, table_cols |-> "None",
                idx |-> 0, uploaded_to |-> << >>]
    /\ cpc' = "started"
    /\ UNCHANGED cin
    /\ UNCHANGED varsA
    /\ UNCHANGED varsB

\* upload thread: table_cols = get_table_columns(conn, self.current_upload_table)
FetchTableCols ==
    /\ cpc = "started" /\ cin.op = "gui"
    /\ cout' = [cout EXCEPT !.table_cols = cout.current_upload_table]
    /\ cpc' = "files"
    /\ UNCHANGED cin
    /\ UNCHANGED varsA
    /\ UNCHANGED varsB

\* upload thread, one file: read, prepare with table_cols, and
\* upload_df_to_table(conn, df_prepared, self.current_upload_table, ...).
UploadFile ==
    /\ cpc = "files" /\ cin.op = "gui"
    /\ cout.idx < cin.files
    /\ cout' = [cout EXCEPT !.idx = @ + 1,
                            !.uploaded_to = Append(@, cout.current_upload_table)]
    /\ UNCHANGED <<cpc, cin>>
    /\ UNCHANGED varsA
    /\ UNCHANGED varsB

\* upload thread: no file is left; conn.close().
UploadCompleted ==
    /\ cpc = "files" /\ cin.op = "gui"
    /\ cout.idx = cin.files
    /\ cpc' = "done"
    /\ UNCHANGED <<cin, cout>>
    /\ UNCHANGED varsA
    /\ UNCHANGED varsB

\* main thread, while the upload thread runs: on_quick_table_select (or
\* on_table_select) sets self.current_upload_table to the table chosen.
OnQuickTableSelect ==
    /\ cpc \in {"started", "files"} /\ cin.op = "gui"
    /\ \E selected \in {"dbo.T1", "dbo.T2", "dbo.T3"} :
          /\ selected # cout.current_upload_table
          /\ cout' = [cout EXCEPT !.current_upload_table = selected]
    /\ UNCHANGED <<cpc, cin>>
    /\ UNCHANGED varsA
    /\ UNCHANGED varsB

NextGui ==
    \/ UploadCurrentFiles
    \/ FetchTableCols
    \/ UploadFile
    \/ UploadCompleted
    \/ OnQuickTableSelect

SpecGui == InitGui /\ [][NextGui]_vars

\* C27 (as claimed): every upload_df_to_table call of one run of the upload
\* thread is given the table whose columns the run fetched at its start,
\* whatever table is selected while it runs.
C27_InsertsGoToFetchedTable ==
    (cin.op = "gui" /\ cpc \in {"files", "done"}) =>
        \A k \in 1..Len(cout.uploaded_to) : cout.uploaded_to[k] = cout.table_cols


(***************************************************************************)
(* Part F (SpecSql): run_sql_scripts                                       *)
(*                                                                         *)
(* cin holds seq_files, each script as the sequence of its lines.  cout    *)
(* holds the batches executed in the open transaction (work), the batches  *)
(* committed, the number of conn.commit() calls, whether the connection is *)
(* open, and the number of the batch whose execute raised (0: none).       *)
(***************************************************************************)
\* the most scripts of one run
MaxScripts == 2

\* split_sql_batches(sql_text): the text is split at the lines that hold only
\* GO (in any case, with optional blanks and semicolon), each part is
\* stripped, and the parts that are empty are dropped.
split_sql_batches(sql_text) ==
    LET IsGoLine(line) == line \in {"GO", "go", " Go ;"}
        RECURSIVE Split(_, _, _)
        Split(lines, cur, acc) ==
            IF lines = << >> THEN Append(acc, cur)
            ELSE IF IsGoLine(Head(lines))
                 THEN Split(Tail(lines), << >>, Append(acc, cur))
                 ELSE Split(Tail(lines), Append(cur, Head(lines)), acc)
        RECURSIVE StripLines(_)
        StripLines(b) ==
            IF b = << >> THEN b
            ELSE IF Head(b) = "" THEN StripLines(Tail(b))
            ELSE IF b[Len(b)] = "" THEN StripLines(SubSeq(b, 1, Len(b) - 1))
            ELSE b
        batches == Split(sql_text, << >>, << >>)
    IN  SelectSeq([k \in 1..Len(batches) |-> StripLines(batches[k])],
                  LAMBDA b : b # << >>)

\* for sqlfile in seq_files: for batch in split_sql_batches(text): the batches
\* in the order the loops reach them, each with the number of its script.
RECURSIVE BatchesOf(_, _)
BatchesOf(seq_files, first) ==
    IF seq_files = << >> THEN << >>
    ELSE LET batches == split_sql_batches(Head(seq_files))
         IN  [k \in 1..Len(batches) |->
                 [file |-> first, no |-> k, batch |-> batches[k]]]
             \o BatchesOf(Tail(seq_files), first + 1)

\* The connection is made and the loop is about to start.
InitSql ==
    /\ cpc = "running"
    /\ \E n \in 0..MaxScripts :
          cin \in [op : {"sql"},
                   seq_files : [1..n -> {<<"A">>, <<"A", "GO", "B">>,
                                         <<"A", "", "B", " Go ;", "", "go", "C", "">>,
                                         <<"GO">>, << >>, <<"", "B", "go">>}]]
    /\ cout = [work |-> << >>, committed |-> << >>, commits |-> 0,
               connOpen |-> TRUE, failedAt |-> 0]
    /\ IdleA
    /\ IdleB

\* cursor.execute(batch) for the next batch: it succeeds, or it raises and the
\* exception leaves both loops.
ExecuteBatch ==
    /\ cpc = "running" /\ cin.op = "sql"
    /\ LET all == BatchesOf(cin.seq_files, 1) IN
          /\ Len(cout.work) < Len(all)
          /\ \/ /\ cout' = [cout EXCEPT !.work = Append(@, all[Len(cout.work) + 1])]
                /\ cpc' = "running"
             \/ /\ cout' = [cout EXCEPT !.failedAt = Len(cout.work) + 1]
                /\ cpc' = "raised"
    /\ UNCHANGED cin
    /\ UNCHANGED varsA
    /\ UNCHANGED varsB

\* Both loops are over: conn.commit().
CommitScripts ==
    /\ cpc = "running" /\ cin.op = "sql"
    /\ Len(cout.work) = Len(BatchesOf(cin.seq_files, 1))
    /\ cout' = [cout EXCEPT !.committed = cout.work, !.commits = @ + 1]
    /\ cpc' = "committed"
    /\ UNCHANGED cin
    /\ UNCHANGED varsA
    /\ UNCHANGED varsB

\* finally: conn.close(), after the commit or with the exception on its way.
CloseSql ==
    /\ cpc \in {"committed", "raised"} /\ cin.op = "sql"
    /\ cout' = [cout EXCEPT !.committed = CloseConnection(cout.committed, cout.work),
                            !.connOpen = FALSE]
    /\ cpc' = IF cpc = "committed" THEN "done" ELSE "failed"
    /\ UNCHANGED cin
    /\ UNCHANGED varsA
    /\ UNCHANGED varsB

NextSql ==
    \/ ExecuteBatch
    \/ CommitScripts
    \/ CloseSql

SpecSql == InitSql /\ [][NextSql]_vars

\* C30: run_sql_scripts executes the batches script by script and, within a
\* script, in file order, none of them holding a GO line; it commits once,
\* after every batch has been executed; when a batch fails no later batch is
\* executed, nothing is committed, and the connection is closed all the same.
C30_ScriptsInOrderOneCommit ==
    cin.op = "sql" =>
        LET all == BatchesOf(cin.seq_files, 1) IN
        /\ Len(cout.work) <= Len(all)
        /\ cout.work = SubSeq(all, 1, Len(cout.work))
        /\ \A a \in 1..Len(cout.work) : \A b \in 1..Len(cout.work) :
              a < b => \/ cout.work[a].file < cout.work[b].file
                       \/ /\ cout.work[a].file = cout.work[b].file
                          /\ cout.work[a].no < cout.work[b].no
        /\ \A a \in 1..Len(cout.work) :
              /\ cout.work[a].batch # << >>
              /\ \A k \in 1..Len(cout.work[a].batch) :
                    cout.work[a].batch[k] \notin {"GO", "go", " Go ;"}
        /\ cout.commits <= 1
        /\ cout.commits = 1 =>
              (cout.failedAt = 0 /\ cout.work = all /\ cout.committed = all)
        /\ cout.commits = 0 => cout.committed = << >>
        /\ cout.failedAt # 0 =>
              (cout.commits = 0 /\ Len(cout.work) = cout.failedAt - 1
                 /\ cpc \in {"raised", "failed"})
        /\ cpc = "done" => (cout.commits = 1 /\ ~cout.connOpen)
        /\ cpc = "failed" => (cout.failedAt # 0 /\ ~cout.connOpen)
        /\ cpc \in {"running", "committed", "raised"} => cout.connOpen

C30_Witness ==
    /\ cin.op = "sql" /\ cpc = "failed"
    /\ Len(cin.seq_files) = 2
    /\ cout.failedAt > 2
    /\ BatchesOf(cin.seq_files, 1)[cout.failedAt].file = 2
    /\ BatchesOf(cin.seq_files, 1)[cout.failedAt].no = 2
    /\ cout.committed = << >> /\ ~cout.connOpen

=============================================================================
